---- MODULE Spec2Model ----
(***************************************************************************)
(* A model of redid, the EDID encoder: the typed value model, the          *)
(* IntoBytes serialisers and the Release 3 / Release 4 / HDMI builders.    *)
(*                                                                         *)
(* Values are modelled as records of integers.  A serialiser X::into_bytes *)
(* is an operator X_into_bytes giving the byte sequence, with a companion  *)
(* predicate X_panics telling when the Rust code panics instead (expect,   *)
(* assert_eq!, unimplemented!, overflow checks).  Floating point inputs    *)
(* are carried as exact decimal fractions (hundredths, thousandths).       *)
(***************************************************************************)
EXTENDS Integers, Sequences, FiniteSets, TLC

(***************************************************************************)
(* Fixed-width integer arithmetic                                          *)
(***************************************************************************)
RECURSIVE BitAnd(_, _)
BitAnd(a, b) ==
    IF a = 0 \/ b = 0 THEN 0
    ELSE (a % 2) * (b % 2) + 2 * BitAnd(a \div 2, b \div 2)

RECURSIVE BitOr(_, _)
BitOr(a, b) ==
    IF a = 0 THEN b
    ELSE IF b = 0 THEN a
    ELSE (IF a % 2 = 1 \/ b % 2 = 1 THEN 1 ELSE 0) + 2 * BitOr(a \div 2, b \div 2)

\* x << n on a u8: the bits shifted past bit 7 are lost
Shl8(x, n) == (x * (2 ^ n)) % (2 ^ 8)

\* x >> n
Shr(x, n) == x \div (2 ^ n)

\* `x as u8`
AsU8(x) == x % (2 ^ 8)

\* u8::wrapping_add
WrappingAdd8(a, b) == (a + b) % (2 ^ 8)

\* u8::wrapping_sub
WrappingSub8(a, b) == (a - b + 2 ^ 8) % (2 ^ 8)

\* u8::try_from(x) / to_u8() succeeds
FitsU8(x) == x >= 0 /\ x < 2 ^ 8

\* Vec::resize(n, v): truncates or pads with v
Resize(s, n, v) == [i \in 1..n |-> IF i <= Len(s) THEN s[i] ELSE v]

\* n copies of v
Repeat(v, n) == [i \in 1..n |-> v]

RECURSIVE Flatten(_)
Flatten(ss) == IF ss = <<>> THEN <<>> ELSE Head(ss) \o Flatten(Tail(ss))

\* bytes[a..=b], 0-based offsets as in the Rust sources
Slice(s, a, b) == SubSeq(s, a + 1, b + 1)

\* bytes[i], 0-based
At(s, i) == s[i + 1]

\* bit n of a byte
Bit(x, n) == (x \div (2 ^ n)) % 2

(***************************************************************************)
(* Layout constants (src/src/lib.rs:64..112)                               *)
(***************************************************************************)
EDID_BASE_LEN == 128
EDID_DESCRIPTOR_LEN == 18
EDID_DESCRIPTORS_NUM == 4
EDID_DESCRIPTOR_PAYLOAD_LEN == 13
EDID_EXTENSION_CTA_861_LEN == 128

(***************************************************************************)
(* The checksum of a block: 0u8.wrapping_sub(wrapping sum of the bytes)    *)
(***************************************************************************)
\* `for byte in &bytes { sum = sum.wrapping_add(*byte) }`, summed by halves
\* (wrapping addition is associative)
RECURSIVE WrappingSum(_)
WrappingSum(bytes) ==
    IF Len(bytes) = 0 THEN 0
    ELSE IF Len(bytes) = 1 THEN AsU8(bytes[1])
    ELSE LET h == Len(bytes) \div 2
         IN WrappingAdd8(WrappingSum(SubSeq(bytes, 1, h)),
                         WrappingSum(SubSeq(bytes, h + 1, Len(bytes))))

Checksum_complement(bytes) == 255 - WrappingSum(bytes)

Checksum(bytes) == WrappingSub8(0, WrappingSum(bytes))

(***************************************************************************)
(* Identification: manufacturer, product code, serial number, date         *)
(***************************************************************************)
\* EdidManufacturer::try_from: three ASCII upper case letters (as char codes)
EdidManufacturer_try_from(s) ==
    /\ \A i \in 1..Len(s) : s[i] < 128
    /\ \A i \in 1..Len(s) : s[i] >= 65 /\ s[i] <= 90
    /\ Len(s) = 3

EdidManufacturer_into_bytes(m) ==
    << BitOr(Shl8(m[1] - 64, 2), Shr(m[2] - 64, 3)),
       BitOr(Shl8(m[2] - 64, 5), m[3] - 64) >>

EdidProductCode_into_bytes(p) == << AsU8(BitAnd(p, 255)), AsU8(Shr(p, 8)) >>

EdidSerialNumber_into_bytes(sn) ==
    << AsU8(BitAnd(sn, 255)),
       AsU8(BitAnd(Shr(sn, 8), 255)),
       AsU8(BitAnd(Shr(sn, 16), 255)),
       AsU8(BitAnd(Shr(sn, 24), 255)) >>

\* EdidWeek::try_from / EdidR4Week::try_from / EdidYear::try_from
EdidWeek_try_from(w) == w >= 1 /\ w <= 53
EdidR4Week_try_from(w) == w >= 1 /\ w <= 54
EdidYear_try_from(y) == y >= 1990 /\ y < 2 ^ 16

\* A date is [kind, has_week, week, year]; kind is "Manufacture" for both
\* releases, or "Model" (Release 4 only).
EdidManufactureDate_try_from(d) ==
    /\ d.kind = "Manufacture"
    /\ d.has_week => EdidWeek_try_from(d.week)
    /\ EdidYear_try_from(d.year)

EdidR4Date_try_from(d) ==
    /\ d.kind \in {"Manufacture", "Model"}
    /\ (d.kind = "Manufacture" /\ d.has_week) => EdidR4Week_try_from(d.week)
    /\ EdidYear_try_from(d.year)

\* u8::try_from(year - 1990).expect("Year would overflow our type.")
EdidDate_panics(d) == ~FitsU8(d.year - 1990)

EdidDate_into_bytes(d) ==
    << IF d.kind = "Model" THEN 255 ELSE IF d.has_week THEN d.week ELSE 0,
       d.year - 1990 >>

(***************************************************************************)
(* Basic display parameters and features                                   *)
(***************************************************************************)
\* round() of the positive fraction n / d (f32::round: half away from zero)
Round(n, d) == (2 * n + d) \div (2 * d)

\* EdidAnalogVideoInputDefinition::into_bytes
EdidAnalogVideoInputDefinition_into_bytes(v) ==
    << BitOr(BitOr(BitOr(Shl8(v.signal_level, 5), Shl8(v.setup, 4)),
                   BitOr(IF v.separate_hv_sync_signals THEN Shl8(1, 3) ELSE 0,
                         IF v.composite_sync_signal_on_hsync THEN Shl8(1, 2) ELSE 0)),
             BitOr(IF v.composite_sync_signal_on_green_video THEN Shl8(1, 1) ELSE 0,
                   IF v.serrations_on_vsync THEN Shl8(1, 0) ELSE 0)) >>

\* EdidR3DigitalVideoInputDefinition::into_bytes
EdidR3DigitalVideoInputDefinition_into_bytes(v) ==
    << BitOr(128, IF v.dfp1_compatible THEN 1 ELSE 0) >>

\* EdidR4DigitalVideoInputDefinition::into_bytes
EdidR4DigitalVideoInputDefinition_into_bytes(v) ==
    << BitOr(BitOr(Shl8(1, 7), Shl8(v.color_depth, 4)), v.interface) >>

\* EdidR3VideoInputDefinition / EdidR4VideoInputDefinition ::into_bytes
EdidVideoInputDefinition_into_bytes(rel, v) ==
    IF v.kind = "Analog" THEN EdidAnalogVideoInputDefinition_into_bytes(v)
    ELSE IF rel = "R3" THEN EdidR3DigitalVideoInputDefinition_into_bytes(v)
    ELSE EdidR4DigitalVideoInputDefinition_into_bytes(v)

\* EdidScreenSizeLength::try_from
EdidScreenSizeLength_try_from(v) == v >= 1 /\ v <= 255

\* EdidR4ImageLandscapeAspectRatio::try_from((num, denum)): 1.00 <= num/denum <= 3.54
EdidR4ImageLandscapeAspectRatio_try_from(num, denum) ==
    100 * num >= 100 * denum /\ 100 * num <= 354 * denum

\* EdidR4ImagePortraitAspectRatio::try_from((num, denum)): 0.28 <= num/denum <= 0.99
EdidR4ImagePortraitAspectRatio_try_from(num, denum) ==
    100 * num >= 28 * denum /\ 100 * num <= 99 * denum

\* the value handed to u8::try_from in EdidR4ImageSize::into_bytes
EdidR4ImageSize_stored(s) ==
    IF s.kind = "LandscapeRatio" THEN Round(100 * s.num, s.denum) - 99
    ELSE Round(100 * s.denum, s.num) - 99

\* .expect("Aspect Ratio would overflow our type.")
EdidImageSize_panics(s) ==
    s.kind \in {"LandscapeRatio", "PortraitRatio"} /\ ~FitsU8(EdidR4ImageSize_stored(s))

\* EdidR3ImageSize::into_bytes / EdidR4ImageSize::into_bytes
EdidImageSize_into_bytes(s) ==
    CASE s.kind = "LandscapeRatio" -> << EdidR4ImageSize_stored(s), 0 >>
      [] s.kind = "PortraitRatio" -> << 0, EdidR4ImageSize_stored(s) >>
      [] s.kind = "Size" -> << s.horizontal_cm, s.vertical_cm >>
      [] s.kind = "Undefined" -> << 0, 0 >>

\* EdidDisplayTransferCharacteristics::try_from(f32), the gamma in hundredths
EdidDisplayTransferCharacteristics_try_from(centi) == centi >= 100 /\ centi <= 354

\* EdidDisplayTransferCharacteristics::into_bytes: round(v * 100 - 100)
EdidDisplayTransferCharacteristics_into_bytes(g) ==
    IF g.kind = "Gamma" THEN << g.centi - 100 >> ELSE << 255 >>

EdidDisplayTransferCharacteristics_panics(g) ==
    g.kind = "Gamma" /\ ~FitsU8(g.centi - 100)

\* EdidR3FeatureSupport::into_bytes: bit 1 (preferred timing mode) is always set
EdidR3FeatureSupport_into_bytes(f) ==
    << BitOr(BitOr(BitOr(Shl8(1, 1), IF f.standby THEN Shl8(1, 7) ELSE 0),
                   BitOr(IF f.suspend THEN Shl8(1, 6) ELSE 0,
                         IF f.active_off_is_very_low_power THEN Shl8(1, 5) ELSE 0)),
             BitOr(BitOr(Shl8(f.display_type, 3),
                         IF f.srgb_default_color_space THEN Shl8(1, 2) ELSE 0),
                   IF f.default_gtf_supported THEN Shl8(1, 0) ELSE 0)) >>

\* EdidR4FeatureSupport::into_bytes
EdidR4FeatureSupport_into_bytes(f) ==
    << BitOr(BitOr(BitOr(IF f.standby THEN Shl8(1, 7) ELSE 0,
                         IF f.suspend THEN Shl8(1, 6) ELSE 0),
                   BitOr(IF f.active_off_is_very_low_power THEN Shl8(1, 5) ELSE 0,
                         Shl8(f.color, 3))),
             BitOr(BitOr(IF f.srgb_default_color_space THEN Shl8(1, 2) ELSE 0,
                         IF f.preferred_timing_mode_is_native THEN Shl8(1, 1) ELSE 0),
                   IF f.continuous_frequency THEN Shl8(1, 0) ELSE 0)) >>

\* EdidBasicDisplayParametersFeatures::into_bytes (R3 and R4)
EdidBasicDisplayParametersFeatures_into_bytes(rel, b) ==
    EdidVideoInputDefinition_into_bytes(rel, b.video_input)
    \o EdidImageSize_into_bytes(b.size)
    \o EdidDisplayTransferCharacteristics_into_bytes(b.display_transfer_characteristic)
    \o (IF rel = "R3" THEN EdidR3FeatureSupport_into_bytes(b.feature_support)
        ELSE EdidR4FeatureSupport_into_bytes(b.feature_support))

EdidBasicDisplayParametersFeatures_panics(rel, b) ==
    \/ EdidImageSize_panics(b.size)
    \/ EdidDisplayTransferCharacteristics_panics(b.display_transfer_characteristic)

(***************************************************************************)
(* Chromaticity: coordinates are given in thousandths                      *)
(***************************************************************************)
\* EdidChromaticityCoordinate::try_from: 0.0 <= v <= 1.0
EdidChromaticityCoordinate_try_from(milli) == milli >= 0 /\ milli <= 1000

\* EdidChromaticityCoordinate::into_raw: round(v * 1024) as u16
EdidChromaticityCoordinate_into_raw(milli) == Round(milli * 1024, 1000)

ChromaLo(raw) == AsU8(BitAnd(raw, 3))
ChromaHi(raw) == AsU8(BitAnd(Shr(raw, 2), 255))

\* EdidFilterChromaticity::into_bytes; a point is <<x, y>>
EdidFilterChromaticity_into_bytes(c) ==
    LET wx == EdidChromaticityCoordinate_into_raw(c.white[1])
        wy == EdidChromaticityCoordinate_into_raw(c.white[2])
    IN  IF c.kind = "MonoChrome"
        THEN << 0, BitOr(Shl8(ChromaLo(wx), 2), ChromaLo(wy)), 0, 0, 0, 0, 0, 0,
                ChromaHi(wx), ChromaHi(wy) >>
        ELSE LET rx == EdidChromaticityCoordinate_into_raw(c.red[1])
                 ry == EdidChromaticityCoordinate_into_raw(c.red[2])
                 gx == EdidChromaticityCoordinate_into_raw(c.green[1])
                 gy == EdidChromaticityCoordinate_into_raw(c.green[2])
                 bx == EdidChromaticityCoordinate_into_raw(c.blue[1])
                 by == EdidChromaticityCoordinate_into_raw(c.blue[2])
             IN << BitOr(BitOr(Shl8(ChromaLo(rx), 6), Shl8(ChromaLo(ry), 4)),
                         BitOr(Shl8(ChromaLo(gx), 2), ChromaLo(gy))),
                   BitOr(BitOr(Shl8(ChromaLo(bx), 6), Shl8(ChromaLo(by), 4)),
                         BitOr(Shl8(ChromaLo(wx), 2), ChromaLo(wy))),
                   ChromaHi(rx), ChromaHi(ry), ChromaHi(gx), ChromaHi(gy),
                   ChromaHi(bx), ChromaHi(by), ChromaHi(wx), ChromaHi(wy) >>

(***************************************************************************)
(* Established timings: <<byte index, bit>> of each enum value             *)
(***************************************************************************)
EdidEstablishedTiming ==
    { "ET_1024_768_60hz", "ET_1024_768_70hz", "ET_1024_768_75hz",
      "ET_1024_768_87hz_Interlaced", "ET_1152_870_75hz", "ET_1280_1024_75hz",
      "ET_640_480_60hz", "ET_640_480_67hz", "ET_640_480_72hz", "ET_640_480_75hz",
      "ET_720_400_70hz", "ET_720_400_88hz", "ET_800_600_56hz", "ET_800_600_60hz",
      "ET_800_600_72hz", "ET_800_600_75hz", "ET_832_624_75hz",
      "Manufacturer0", "Manufacturer1", "Manufacturer2", "Manufacturer3",
      "Manufacturer4", "Manufacturer5", "Manufacturer6" }

EstablishedTimingBit(et) ==
    CASE et = "ET_800_600_60hz" -> <<1, 0>>
      [] et = "ET_800_600_56hz" -> <<1, 1>>
      [] et = "ET_640_480_75hz" -> <<1, 2>>
      [] et = "ET_640_480_72hz" -> <<1, 3>>
      [] et = "ET_640_480_67hz" -> <<1, 4>>
      [] et = "ET_640_480_60hz" -> <<1, 5>>
      [] et = "ET_720_400_88hz" -> <<1, 6>>
      [] et = "ET_720_400_70hz" -> <<1, 7>>
      [] et = "ET_1280_1024_75hz" -> <<2, 0>>
      [] et = "ET_1024_768_75hz" -> <<2, 1>>
      [] et = "ET_1024_768_70hz" -> <<2, 2>>
      [] et = "ET_1024_768_60hz" -> <<2, 3>>
      [] et = "ET_1024_768_87hz_Interlaced" -> <<2, 4>>
      [] et = "ET_832_624_75hz" -> <<2, 5>>
      [] et = "ET_800_600_75hz" -> <<2, 6>>
      [] et = "ET_800_600_72hz" -> <<2, 7>>
      [] et = "ET_1152_870_75hz" -> <<3, 7>>
      [] et = "Manufacturer0" -> <<3, 0>>
      [] et = "Manufacturer1" -> <<3, 1>>
      [] et = "Manufacturer2" -> <<3, 2>>
      [] et = "Manufacturer3" -> <<3, 3>>
      [] et = "Manufacturer4" -> <<3, 4>>
      [] et = "Manufacturer5" -> <<3, 5>>
      [] et = "Manufacturer6" -> <<3, 6>>

\* the loop of <Vec<EdidEstablishedTiming> as IntoBytes>::into_bytes
RECURSIVE EstablishedTimingsFold(_, _)
EstablishedTimingsFold(ets, acc) ==
    IF ets = <<>> THEN acc
    ELSE LET p == EstablishedTimingBit(Head(ets))
         IN EstablishedTimingsFold(Tail(ets),
                [acc EXCEPT ![p[1]] = BitOr(@, Shl8(1, p[2]))])

EstablishedTimings_into_bytes(ets) == EstablishedTimingsFold(ets, <<0, 0, 0>>)

(***************************************************************************)
(* Standard timings                                                        *)
(***************************************************************************)
EdidStandardTimingHorizontalSize_try_from(x) == x >= 256 /\ x <= 2288 /\ x % 8 = 0
EdidStandardTimingRefreshRate_try_from(f) == f >= 60 /\ f <= 123

EdidStandardTimingRatio ==
    { "Ratio_16_10", "Ratio_4_3", "Ratio_5_4", "Ratio_16_9" }

StandardTimingRatioCode(r) ==
    CASE r = "Ratio_16_10" -> 0
      [] r = "Ratio_4_3" -> 1
      [] r = "Ratio_5_4" -> 2
      [] r = "Ratio_16_9" -> 3

\* the slot with the ratio code left in the low bits of byte 1
StandardTimingSlot_unshifted(timing) ==
    << (timing.x \div 8) - 31,
       BitOr(BitAnd(timing.frequency - 60, 63), StandardTimingRatioCode(timing.ratio)) >>

StandardTimingSlot(timing) ==
    << (timing.x \div 8) - 31,
       BitOr(BitAnd(timing.frequency - 60, 63), Shl8(StandardTimingRatioCode(timing.ratio), 6)) >>

\* u8::try_from((timing.x.0 / 8) - 31).expect("Standard Timing X Value is too big")
StandardTimings_panics(sts) ==
    \E i \in 1..Len(sts) : i <= 8 /\ ~FitsU8((sts[i].x \div 8) - 31)

\* the field with a slot for every timing of the list, however long
StandardTimings_into_bytes_all(sts) ==
    Flatten([i \in 1..(IF Len(sts) > 8 THEN Len(sts) ELSE 8) |->
                IF i <= Len(sts) THEN StandardTimingSlot(sts[i]) ELSE <<1, 1>>])

\* <Vec<EdidStandardTiming> as IntoBytes>::into_bytes: 8 slots, self.get(st_idx)
StandardTimings_into_bytes(sts) ==
    Flatten([i \in 1..8 |-> IF i <= Len(sts) THEN StandardTimingSlot(sts[i]) ELSE <<1, 1>>])

(***************************************************************************)
(* Descriptors.  A string is a sequence of character codes.                *)
(***************************************************************************)
\* EdidDescriptorString::try_from: ASCII only, at most 13 bytes
EdidDescriptorString_try_from(str) ==
    /\ \A i \in 1..Len(str) : str[i] < 128
    /\ Len(str) <= EDID_DESCRIPTOR_PAYLOAD_LEN

\* ISO_8859_1.encode(.., EncoderTrap::Strict).expect("String Encoding failed.")
EdidDescriptorString_panics(str) == \E i \in 1..Len(str) : str[i] > 255

EdidDescriptorString_into_bytes_zero_padded(str) ==
    Resize(IF Len(str) < EDID_DESCRIPTOR_PAYLOAD_LEN THEN Append(str, 10) ELSE str,
           EDID_DESCRIPTOR_PAYLOAD_LEN, 0)

\* EdidDescriptorString::into_bytes: 0x0a terminator if shorter than 13, 0x20 padding
EdidDescriptorString_into_bytes(str) ==
    Resize(IF Len(str) < EDID_DESCRIPTOR_PAYLOAD_LEN THEN Append(str, 10) ELSE str,
           EDID_DESCRIPTOR_PAYLOAD_LEN, 32)

\* EdidDescriptorCustom::try_from((tag, payload))
EdidDescriptorCustom_try_from(c) ==
    c.tag <= 15 /\ Len(c.payload) <= EDID_DESCRIPTOR_PAYLOAD_LEN

\* EdidDescriptorCustom::into_bytes
EdidDescriptorCustom_into_bytes(c) ==
    Resize(<<0, 0, 0, c.tag, 0>> \o c.payload, EDID_DESCRIPTOR_LEN, 0)

\* EdidDescriptorTiming::<N>::try_from: value <= compute_max_value(N)
EdidDescriptorTiming_try_from(num_bits, value) == value >= 0 /\ value <= (2 ^ num_bits) - 1

\* EdidDetailedTimingPixelClock::try_from (kHz)
EdidDetailedTimingPixelClock_try_from(khz) == khz >= 10 /\ khz <= 655350

\* every field of a detailed timing was accepted by its constructor
EdidDescriptorDetailedTiming_try_from(dt) ==
    /\ EdidDetailedTimingPixelClock_try_from(dt.pixel_clock)
    /\ EdidDescriptorTiming_try_from(12, dt.horizontal.active)
    /\ EdidDescriptorTiming_try_from(10, dt.horizontal.front_porch)
    /\ EdidDescriptorTiming_try_from(10, dt.horizontal.sync_pulse)
    /\ EdidDescriptorTiming_try_from(12, dt.horizontal.back_porch)
    /\ EdidDescriptorTiming_try_from(8, dt.horizontal.border)
    /\ EdidDescriptorTiming_try_from(12, dt.horizontal.size_mm)
    /\ EdidDescriptorTiming_try_from(12, dt.vertical.active)
    /\ EdidDescriptorTiming_try_from(6, dt.vertical.front_porch)
    /\ EdidDescriptorTiming_try_from(6, dt.vertical.sync_pulse)
    /\ EdidDescriptorTiming_try_from(12, dt.vertical.back_porch)
    /\ EdidDescriptorTiming_try_from(8, dt.vertical.border)
    /\ EdidDescriptorTiming_try_from(12, dt.vertical.size_mm)

\* the derived fields of EdidDescriptorDetailedTiming::into_bytes
Dtd_hso(dt) == dt.horizontal.border + dt.horizontal.front_porch
Dtd_hblank(dt) ==
    Dtd_hso(dt) + dt.horizontal.sync_pulse + dt.horizontal.back_porch + dt.horizontal.border
\* `vborder + vfp` is a u8 addition: the wrapped value (without overflow checks)
Dtd_vso(dt) == AsU8(dt.vertical.border + dt.vertical.front_porch)
Dtd_vblank(dt) ==
    Dtd_vso(dt) + dt.vertical.sync_pulse + dt.vertical.back_porch + dt.vertical.border

\* the expect()s of EdidDescriptorDetailedTiming::into_bytes, and the u8 addition
\* that aborts when the build has overflow checks
EdidDescriptorDetailedTiming_panics(dt, overflow_checks) ==
    \/ ~EdidDescriptorTiming_try_from(10, Dtd_hso(dt))
    \/ ~EdidDescriptorTiming_try_from(12, Dtd_hblank(dt))
    \/ overflow_checks /\ ~FitsU8(dt.vertical.border + dt.vertical.front_porch)
    \/ ~EdidDescriptorTiming_try_from(6, Dtd_vso(dt))
    \/ ~EdidDescriptorTiming_try_from(12, Dtd_vblank(dt))

DtdStereoFlags(stereo) ==
    CASE stereo = "None" -> 0
      [] stereo = "FieldSequentialRightOnSync" -> 32
      [] stereo = "FieldSequentialLeftOnSync" -> 64
      [] stereo = "TwoWayInterleavedRightOnEven" -> 33
      [] stereo = "TwoWayInterleavedLeftOnEven" -> 65
      [] stereo = "FourWayInterleaved" -> 96
      [] stereo = "SideBySideInterleaved" -> 97

\* sync_type: [kind: AnalogBipolarComposite | AnalogComposite (serrations, sync_on_rgb),
\*             DigitalSeparate (vsync_positive, hsync_positive),
\*             DigitalComposite (serrations, hsync_positive)]
DtdSyncFlags(sync) ==
    CASE sync.kind = "AnalogBipolarComposite" ->
            BitOr(Shl8(1, 3), BitOr(IF sync.serrations THEN Shl8(1, 2) ELSE 0,
                                    IF sync.sync_on_rgb THEN Shl8(1, 1) ELSE 0))
      [] sync.kind = "AnalogComposite" ->
            BitOr(Shl8(0, 3), BitOr(IF sync.serrations THEN Shl8(1, 2) ELSE 0,
                                    IF sync.sync_on_rgb THEN Shl8(1, 1) ELSE 0))
      [] sync.kind = "DigitalSeparate" ->
            BitOr(Shl8(3, 3), BitOr(IF sync.vsync_positive THEN Shl8(1, 2) ELSE 0,
                                    IF sync.hsync_positive THEN Shl8(1, 1) ELSE 0))
      [] sync.kind = "DigitalComposite" ->
            BitOr(Shl8(2, 3), BitOr(IF sync.serrations THEN Shl8(1, 2) ELSE 0,
                                    IF sync.hsync_positive THEN Shl8(1, 1) ELSE 0))

DtdFlags(dt) ==
    BitOr(IF dt.interlace THEN Shl8(1, 7) ELSE 0,
          BitOr(DtdStereoFlags(dt.stereo), DtdSyncFlags(dt.sync_type)))

\* EdidDescriptorDetailedTiming::into_bytes
EdidDescriptorDetailedTiming_into_bytes(dt) ==
    LET freq == dt.pixel_clock \div 10
        hact == dt.horizontal.active
        vact == dt.vertical.active
        hso == Dtd_hso(dt)
        hsync == dt.horizontal.sync_pulse
        hblank == Dtd_hblank(dt)
        vso == Dtd_vso(dt)
        vsync == dt.vertical.sync_pulse
        vblank == Dtd_vblank(dt)
        hsize == dt.horizontal.size_mm
        vsize == dt.vertical.size_mm
    IN << AsU8(BitAnd(freq, 255)),
          AsU8(BitAnd(Shr(freq, 8), 255)),
          AsU8(BitAnd(hact, 255)),
          AsU8(BitAnd(hblank, 255)),
          BitOr(Shl8(AsU8(BitAnd(Shr(hact, 8), 15)), 4), AsU8(BitAnd(Shr(hblank, 8), 15))),
          AsU8(BitAnd(vact, 255)),
          AsU8(BitAnd(vblank, 255)),
          BitOr(Shl8(AsU8(BitAnd(Shr(vact, 8), 15)), 4), AsU8(BitAnd(Shr(vblank, 8), 15))),
          AsU8(BitAnd(hso, 255)),
          AsU8(BitAnd(hsync, 255)),
          BitOr(Shl8(BitAnd(vso, 15), 4), BitAnd(vsync, 15)),
          BitOr(BitOr(Shl8(AsU8(BitAnd(Shr(hso, 8), 3)), 6),
                      Shl8(AsU8(BitAnd(Shr(hsync, 8), 3)), 4)),
                BitOr(Shl8(BitAnd(Shr(vso, 4), 3), 2), BitAnd(Shr(vsync, 4), 3))),
          AsU8(BitAnd(hsize, 255)),
          AsU8(BitAnd(vsize, 255)),
          BitOr(Shl8(AsU8(BitAnd(Shr(hsize, 8), 15)), 4), AsU8(BitAnd(Shr(vsize, 8), 15))),
          dt.horizontal.border,
          dt.vertical.border,
          DtdFlags(dt) >>

\* EdidDisplayRangePixelClock::into_raw: next_multiple_of(10) / 10
EdidDisplayRangePixelClock_into_raw(mhz) == ((mhz + 9) \div 10)

\* EdidR3DisplayRangeLimits::into_bytes; a frequency range is <<start, end>>
EdidR3DisplayRangeLimits_into_bytes(drl) ==
    << drl.vfreq_hz[1], drl.vfreq_hz[2], drl.hfreq_khz[1], drl.hfreq_khz[2],
       EdidDisplayRangePixelClock_into_raw(drl.max_pixelclock_mhz) >>
    \o (IF drl.timings_support.kind = "DefaultGTF"
        THEN << 0, 10, 32, 32, 32, 32, 32, 32 >>
        ELSE LET g == drl.timings_support
             IN << 2, 0, g.horizontal_start_frequency \div 2,
                   AsU8(g.blanking_offset * 2),
                   AsU8(BitAnd(g.blanking_gradient, 255)),
                   AsU8(Shr(g.blanking_gradient, 8)),
                   g.blanking_scaling_factor,
                   AsU8(g.blanking_scaling_factor_weighting * 2) >>)

\* the u8 multiplications by 2 abort when the build has overflow checks
EdidR3DisplayRangeLimits_panics(drl, overflow_checks) ==
    /\ drl.timings_support.kind = "SecondaryGTF"
    /\ overflow_checks
    /\ \/ ~FitsU8(drl.timings_support.blanking_offset * 2)
       \/ ~FitsU8(drl.timings_support.blanking_scaling_factor_weighting * 2)

\* EdidR3Descriptor::Dummy.into_bytes()
DummyDescriptor == <<0, 0, 0, 16, 0>> \o Repeat(0, 13)

\* the variants whose arm is unimplemented!()
UnimplementedDescriptors ==
    { "StandardTimings", "ColorPointData", "CVT", "DisplayColorManagement" }

\* EdidR3Descriptor::into_bytes / EdidR4Descriptor::into_bytes before the length
\* assertion; a descriptor is [kind, v]
Descriptor_bytes(d) ==
    CASE d.kind = "DetailedTiming" -> EdidDescriptorDetailedTiming_into_bytes(d.v)
      [] d.kind = "Custom" -> EdidDescriptorCustom_into_bytes(d.v)
      [] d.kind = "Dummy" -> DummyDescriptor
      [] d.kind = "ProductName" -> <<0, 0, 0, 252, 0>> \o EdidDescriptorString_into_bytes(d.v)
      [] d.kind = "DisplayRangeLimits" ->
            <<0, 0, 0, 253, 0>> \o EdidR3DisplayRangeLimits_into_bytes(d.v)
      [] d.kind = "DataString" -> <<0, 0, 0, 254, 0>> \o EdidDescriptorString_into_bytes(d.v)
      [] d.kind = "ProductSerialNumber" ->
            <<0, 0, 0, 255, 0>> \o EdidDescriptorString_into_bytes(d.v)

Descriptor_panics(d, overflow_checks) ==
    \/ d.kind \in UnimplementedDescriptors
    \/ d.kind = "DetailedTiming" /\ EdidDescriptorDetailedTiming_panics(d.v, overflow_checks)
    \/ d.kind \in {"ProductName", "DataString", "ProductSerialNumber"}
          /\ EdidDescriptorString_panics(d.v)
    \/ d.kind = "DisplayRangeLimits" /\ EdidR3DisplayRangeLimits_panics(d.v, overflow_checks)
    \/ d.kind \notin UnimplementedDescriptors /\ Len(Descriptor_bytes(d)) # EDID_DESCRIPTOR_LEN

\* the number of Dummy descriptors <Vec<EdidDescriptor>>::into_bytes appends:
\* `for _ in (last_idx + 1)..EDID_DESCRIPTORS_NUM`, last_idx staying 0 for an empty list
DummyCount(ds) ==
    LET last_idx == IF ds = <<>> THEN 0 ELSE Len(ds) - 1
    IN IF last_idx + 1 < EDID_DESCRIPTORS_NUM THEN EDID_DESCRIPTORS_NUM - (last_idx + 1) ELSE 0

\* <Vec<EdidDescriptor> as IntoBytes>::into_bytes before the length assertion
Descriptors_bytes(ds) ==
    Flatten([i \in 1..Len(ds) |-> Descriptor_bytes(ds[i])])
    \o Flatten([i \in 1..DummyCount(ds) |-> DummyDescriptor])

\* assert_eq!(bytes.len(), EDID_DESCRIPTOR_LEN * EDID_DESCRIPTORS_NUM)
Descriptors_panics(ds, overflow_checks) ==
    \/ \E i \in 1..Len(ds) : Descriptor_panics(ds[i], overflow_checks)
    \/ Len(Descriptors_bytes(ds)) # EDID_DESCRIPTOR_LEN * EDID_DESCRIPTORS_NUM

(***************************************************************************)
(* CTA-861 extension: data blocks                                          *)
(***************************************************************************)
\* A short video descriptor is [kind |-> "Low", native, vic] or [kind |-> "High", vic],
\* as the enum EdidExtensionCTA861VideoDataBlockDesc.

\* the descriptor add_short_video_descriptor(vic) pushes
ShortVideoDescriptor(vic) ==
    IF vic < 64 THEN [kind |-> "Low", native |-> FALSE, vic |-> vic]
    ELSE [kind |-> "High", native |-> FALSE, vic |-> vic]

\* the descriptor add_native_short_video_descriptor(vic) pushes
NativeShortVideoDescriptor(vic) == [kind |-> "Low", native |-> TRUE, vic |-> vic]

\* Deserialize for EdidExtensionCTA861VideoDataBlockDesc: the helper {vic, native?}
\* is accepted unless vic >= 64 and native is given
VideoDataBlockDesc_deserialize_ok(vic, has_native, native) == vic < 64 \/ ~has_native

VideoDataBlockDesc_deserialize(vic, has_native, native) ==
    IF vic < 64
    THEN [kind |-> "Low", native |-> (has_native /\ native), vic |-> vic]
    ELSE [kind |-> "High", native |-> FALSE, vic |-> vic]

\* the byte EdidExtensionCTA861VideoDataBlock::into_bytes pushes for one descriptor
VideoDataBlockDesc_byte(desc) ==
    IF desc.kind = "Low"
    THEN (IF desc.native THEN BitOr(Shl8(1, 7), desc.vic) ELSE desc.vic)
    ELSE desc.vic

\* EdidExtensionCTA861VideoDataBlock::size
EdidExtensionCTA861VideoDataBlock_size(descs) == 1 + 1 * Len(descs)

\* (self.size() - 1).to_u8().expect("Size would overflow our type")
EdidExtensionCTA861VideoDataBlock_panics(descs) ==
    ~FitsU8(EdidExtensionCTA861VideoDataBlock_size(descs) - 1)

\* EdidExtensionCTA861VideoDataBlock::into_bytes
EdidExtensionCTA861VideoDataBlock_into_bytes(descs) ==
    << BitOr(Shl8(2, 5), EdidExtensionCTA861VideoDataBlock_size(descs) - 1) >>
    \o [i \in 1..Len(descs) |-> VideoDataBlockDesc_byte(descs[i])]

\* EdidExtensionCTA861VideoCapabilityDataBlock::into_bytes; the quantization and
\* scan fields are given by their as_raw() values
EdidExtensionCTA861VideoCapabilityDataBlock_into_bytes(vc) ==
    << BitOr(Shl8(7, 5), 3 - 1), 0,
       BitOr(BitOr(Shl8(vc.qy_quant, 7), Shl8(vc.qs_quant, 6)),
             BitOr(BitOr(Shl8(vc.pt_scan, 4), Shl8(vc.it_scan, 2)), vc.ce_scan)) >>

\* bytes |= 1 << n for every n of the list
RECURSIVE OrBits(_)
OrBits(ns) == IF ns = <<>> THEN 0 ELSE BitOr(Shl8(1, Head(ns)), OrBits(Tail(ns)))

\* the three bytes of an LPCM short audio descriptor [channels, sampling_frequencies,
\* sampling_rates]; the enums are given by their discriminants
AudioDataBlockDesc_bytes(desc) ==
    << BitOr(Shl8(1, 3), desc.channels - 1),
       OrBits(desc.sampling_frequencies),
       OrBits(desc.sampling_rates) >>

\* EdidExtensionCTA861AudioDataBlock::size
EdidExtensionCTA861AudioDataBlock_size(descs) == 1 + 3 * Len(descs)

\* EdidExtensionCTA861AudioDataBlock::into_bytes
EdidExtensionCTA861AudioDataBlock_into_bytes(descs) ==
    << BitOr(Shl8(1, 5), EdidExtensionCTA861AudioDataBlock_size(descs) - 1) >>
    \o Flatten([i \in 1..Len(descs) |-> AudioDataBlockDesc_bytes(descs[i])])

\* a byte made of `if self.<field> { byte |= 1 << n }`: fields is the list of the
\* field names from bit 0 up ("" for a bit no field sets), on the set of the
\* fields that are true
FlagsByte(fields, on) ==
    OrBits(SelectSeq([n \in 1..Len(fields) |-> IF fields[n] \in on THEN n - 1 ELSE 8],
                     LAMBDA n : n < 8))

\* EdidExtensionCTA861SpeakerAllocationDataBlock::into_bytes; size() is 4
EdidExtensionCTA861SpeakerAllocationDataBlock_into_bytes(on) ==
    << BitOr(Shl8(4, 5), 4 - 1),
       FlagsByte(<< "front_left_front_right", "low_frequency_effects", "front_center",
                    "back_left_back_right", "back_center",
                    "front_left_of_center_front_right_of_center",
                    "rear_left_of_center_rear_right_of_center",
                    "front_left_wide_front_right_wide" >>, on),
       FlagsByte(<< "top_front_left_top_front_right", "top_center", "top_front_center",
                    "left_surround_right_surround", "low_frequency_effects_2",
                    "top_back_center", "side_left_side_right",
                    "top_side_left_top_side_right" >>, on),
       FlagsByte(<< "top_back_left_top_back_right", "bottom_front_center",
                    "bottom_from_left_bottom_front_right",
                    "top_left_surround_top_right_surround" >>, on) >>

\* EdidExtensionCTA861ColorimetryDataBlock::into_bytes; size() is 4
EdidExtensionCTA861ColorimetryDataBlock_into_bytes(on) ==
    << BitOr(Shl8(7, 5), 4 - 1), 5,
       FlagsByte(<< "xv_ycc_601", "xv_ycc_709", "s_ycc_601", "op_ycc_601", "op_rgb",
                    "bt_2020_c_ycc", "bt_2020_ycc", "bt_2020_rgb" >>, on),
       BitOr(Shl8(1, 5), IF "dci_p3" \in on THEN Shl8(1, 7) ELSE 0) >>

\* utils.rs round_up: the next multiple of `multiple` from `number` on
round_up(number, multiple) ==
    IF number % multiple = 0 THEN number ELSE ((number \div multiple) + 1) * multiple

\* utils.rs div_round_up
div_round_up(numerator, denominator) == round_up(numerator, denominator) \div denominator

\* TryFrom<u16> for EdidExtensionCTA861Hdmi14bTmdsRate
EdidExtensionCTA861Hdmi14bTmdsRate_try_from(value) == value >= 5 /\ value <= 340

\* TryFrom<[u8; 4]> for CecAddress
CecAddress_try_from(value) == \A k \in 1..4 : value[k] >= 0 /\ value[k] <= 15

\* an HDMI vendor-specific data block is [source_physical_address, flags (the set
\* of the bool fields that are true), max_tmds_rate_mhz: [some, v],
\* video: [some, vics]]
HdmiDataBlock_tail(h) ==
    IF h.video.some THEN 3
    ELSE IF h.max_tmds_rate_mhz.some THEN 2
    ELSE IF h.flags # {} THEN 1
    ELSE 0

\* EdidExtensionCTA861HdmiDataBlock::size
EdidExtensionCTA861HdmiDataBlock_size(h) ==
    6 + HdmiDataBlock_tail(h) + (IF h.video.some THEN 2 + Len(h.video.vics) ELSE 0)

\* (self.size() - 1).to_u8(), div_round_up(rate, 5).to_u8(), vics.len().to_u8()
EdidExtensionCTA861HdmiDataBlock_panics(h) ==
    \/ ~FitsU8(EdidExtensionCTA861HdmiDataBlock_size(h) - 1)
    \/ h.max_tmds_rate_mhz.some /\ ~FitsU8(div_round_up(h.max_tmds_rate_mhz.v, 5))
    \/ h.video.some /\ ~FitsU8(Len(h.video.vics))

\* EdidExtensionCTA861HdmiDataBlock::into_bytes
EdidExtensionCTA861HdmiDataBlock_into_bytes(h) ==
    LET a == h.source_physical_address
        byte6 == FlagsByte(<< "dvi_dual", "", "", "deep_color_ycbcr_444",
                              "deep_color_30_bits", "deep_color_36_bits",
                              "deep_color_48_bits", "acp_isrc" >>, h.flags)
        byte7 == IF h.max_tmds_rate_mhz.some THEN div_round_up(h.max_tmds_rate_mhz.v, 5) ELSE 0
        byte8 == IF h.video.some THEN Shl8(1, 5) ELSE 0
    IN << BitOr(Shl8(3, 5), EdidExtensionCTA861HdmiDataBlock_size(h) - 1), 3, 12, 0,
          BitOr(Shl8(a[1], 4), a[2]), BitOr(Shl8(a[3], 4), a[4]) >>
       \o SubSeq(<< byte6, byte7, byte8 >>, 1, HdmiDataBlock_tail(h))
       \o (IF h.video.some
           THEN << 0, Shl8(Len(h.video.vics), 5) >> \o h.video.vics
           ELSE <<>>)

\* EdidExtensionCTA861Revision3DataBlock::size; a data block is [kind, v]
DataBlock_size(b) ==
    CASE b.kind = "Audio" -> EdidExtensionCTA861AudioDataBlock_size(b.v)
      [] b.kind = "SpeakerAllocation" -> 4
      [] b.kind = "Colorimetry" -> 4
      [] b.kind = "Video" -> EdidExtensionCTA861VideoDataBlock_size(b.v)
      [] b.kind = "HDMI" -> EdidExtensionCTA861HdmiDataBlock_size(b.v)
      [] b.kind = "VideoCapability" -> 3

\* EdidExtensionCTA861Revision3DataBlock::into_bytes
DataBlock_into_bytes(b) ==
    CASE b.kind = "Audio" -> EdidExtensionCTA861AudioDataBlock_into_bytes(b.v)
      [] b.kind = "SpeakerAllocation" ->
            EdidExtensionCTA861SpeakerAllocationDataBlock_into_bytes(b.v)
      [] b.kind = "Colorimetry" -> EdidExtensionCTA861ColorimetryDataBlock_into_bytes(b.v)
      [] b.kind = "Video" -> EdidExtensionCTA861VideoDataBlock_into_bytes(b.v)
      [] b.kind = "HDMI" -> EdidExtensionCTA861HdmiDataBlock_into_bytes(b.v)
      [] b.kind = "VideoCapability" ->
            EdidExtensionCTA861VideoCapabilityDataBlock_into_bytes(b.v)

\* the .expect() of a data block's into_bytes
DataBlock_panics(b) ==
    \/ b.kind = "Audio" /\ ~FitsU8(EdidExtensionCTA861AudioDataBlock_size(b.v) - 1)
    \/ b.kind = "Video" /\ EdidExtensionCTA861VideoDataBlock_panics(b.v)
    \/ b.kind = "HDMI" /\ EdidExtensionCTA861HdmiDataBlock_panics(b.v)

(***************************************************************************)
(* CTA-861 Revision 3 extension block                                      *)
(***************************************************************************)
RECURSIVE SumSizes(_)
SumSizes(blocks) ==
    IF blocks = <<>> THEN 0 ELSE DataBlock_size(Head(blocks)) + SumSizes(Tail(blocks))

\* the offset of the first detailed timing, before .to_u8()
Cta861_dtd_offset(ext) ==
    IF ext.data_blocks = <<>> /\ ext.timings = <<>> THEN 0
    ELSE 4 + SumSizes(ext.data_blocks)

Cta861_flags(ext) ==
    BitOr(BitOr(BitOr(IF ext.underscan_it_formats_by_default THEN Shl8(1, 7) ELSE 0,
                      IF ext.audio_supported THEN Shl8(1, 6) ELSE 0),
                BitOr(IF ext.ycbcr_444_supported THEN Shl8(1, 5) ELSE 0,
                      IF ext.ycbcr_422_supported THEN Shl8(1, 4) ELSE 0)),
          ext.native_formats)

\* the first 127 bytes: header, data blocks, detailed timings, data.resize(127, 0)
Cta861_payload(ext) ==
    Resize(<< 2, 3, Cta861_dtd_offset(ext), Cta861_flags(ext) >>
           \o Flatten([i \in 1..Len(ext.data_blocks) |-> DataBlock_into_bytes(ext.data_blocks[i])])
           \o Flatten([i \in 1..Len(ext.timings) |->
                          EdidDescriptorDetailedTiming_into_bytes(ext.timings[i])]),
           EDID_EXTENSION_CTA_861_LEN - 1, 0)

\* EdidExtensionCTA861Revision3::into_bytes
EdidExtensionCTA861Revision3_into_bytes(ext) ==
    Append(Cta861_payload(ext), Checksum(Cta861_payload(ext)))

EdidExtensionCTA861Revision3_panics(ext, overflow_checks) ==
    \/ ~FitsU8(Cta861_dtd_offset(ext))
    \/ \E i \in 1..Len(ext.data_blocks) : DataBlock_panics(ext.data_blocks[i])
    \/ \E i \in 1..Len(ext.timings) :
          EdidDescriptorDetailedTiming_panics(ext.timings[i], overflow_checks)

\* <EdidExtension as IntoBytes>::into_bytes: CTA861(Revision3(v)) is the only variant
EdidExtension_into_bytes(ext) == EdidExtensionCTA861Revision3_into_bytes(ext)

(***************************************************************************)
(* The base block and the whole EDID                                       *)
(***************************************************************************)
\* An Edid is [release, manufacturer, product_code, serial_number, date, bdpf,
\* chroma_coord, established_timings, standard_timings, descriptors, extensions];
\* serial_number is [some, v].

EdidHeader == <<0, 255, 255, 255, 255, 255, 255, 0>>

VersionRevision_swapped(release) == IF release = "R3" THEN <<1, 4>> ELSE <<1, 3>>

VersionRevision(release) == IF release = "R3" THEN <<1, 3>> ELSE <<1, 4>>

\* self.extensions.len(), before .to_u8()
NumExts(e) == Len(e.extensions)

\* `for ext in self.extensions { bytes.extend_from_slice(&ext.into_bytes()) }`
Extensions_bytes_reversed(exts) ==
    Flatten([i \in 1..Len(exts) |-> EdidExtension_into_bytes(exts[Len(exts) + 1 - i])])

Extensions_bytes(exts) ==
    Flatten([i \in 1..Len(exts) |-> EdidExtension_into_bytes(exts[i])])

\* bytes 0..=126 of the base block
Edid_base(e) ==
    EdidHeader
    \o EdidManufacturer_into_bytes(e.manufacturer)
    \o EdidProductCode_into_bytes(e.product_code)
    \o (IF e.serial_number.some THEN EdidSerialNumber_into_bytes(e.serial_number.v)
        ELSE Repeat(0, 4))
    \o EdidDate_into_bytes(e.date)
    \o VersionRevision(e.release)
    \o EdidBasicDisplayParametersFeatures_into_bytes(e.release, e.bdpf)
    \o EdidFilterChromaticity_into_bytes(e.chroma_coord)
    \o EstablishedTimings_into_bytes(e.established_timings)
    \o StandardTimings_into_bytes(e.standard_timings)
    \o Descriptors_bytes(e.descriptors)
    \o << NumExts(e) >>

\* <Edid as IntoBytes>::into_bytes
Edid_into_bytes(e) ==
    LET base == Edid_base(e)
    IN Append(base, Checksum(base)) \o Extensions_bytes(e.extensions)

\* <Edid as IntoBytes>::size, also the size() of EdidRelease3, EdidRelease4 and
\* HdmiEdid: EDID_BASE_LEN whatever the extensions
Edid_size(e) == EDID_BASE_LEN

\* every expect / assert on the way
Edid_panics(e, overflow_checks) ==
    \/ EdidDate_panics(e.date)
    \/ EdidBasicDisplayParametersFeatures_panics(e.release, e.bdpf)
    \/ StandardTimings_panics(e.standard_timings)
    \/ Descriptors_panics(e.descriptors, overflow_checks)
    \/ ~FitsU8(NumExts(e))
    \/ \E i \in 1..Len(e.extensions) :
          EdidExtensionCTA861Revision3_panics(e.extensions[i], overflow_checks)
    \/ Len(Edid_into_bytes(e)) % EDID_BASE_LEN # 0

(***************************************************************************)
(* Input values                                                            *)
(***************************************************************************)
\* the bounds of the exploration
MaxItems == 5
MaxListArg == 2
MaxVideoDescs == 3

SeqsUpTo(S, n) == UNION { [1..k -> S] : k \in 0..n }

\* 1600x1200 at 162 MHz, the detailed timing of test_binary_spec_example_1
DetailedTiming_1600_1200 ==
    [ pixel_clock |-> 162000,
      horizontal |-> [active |-> 1600, front_porch |-> 64, sync_pulse |-> 192,
                      back_porch |-> 304, border |-> 0, size_mm |-> 427],
      vertical |-> [active |-> 1200, front_porch |-> 1, sync_pulse |-> 3,
                    back_porch |-> 46, border |-> 0, size_mm |-> 320],
      interlace |-> FALSE,
      sync_type |-> [kind |-> "DigitalSeparate", vsync_positive |-> TRUE,
                     hsync_positive |-> TRUE],
      stereo |-> "None" ]

\* every field is accepted by its constructor; vertical border + front porch is 260
DetailedTiming_wide_border ==
    [ DetailedTiming_1600_1200 EXCEPT
        !.vertical = [active |-> 1200, front_porch |-> 60, sync_pulse |-> 3,
                      back_porch |-> 46, border |-> 200, size_mm |-> 320] ]

SampleDescriptors ==
    { [kind |-> "DetailedTiming", v |-> DetailedTiming_1600_1200],
      [kind |-> "ProductName", v |-> <<65, 66, 67>>],
      [kind |-> "DetailedTiming", v |-> DetailedTiming_wide_border] }

SampleEstablishedTimings == { "ET_640_480_60hz", "ET_1280_1024_75hz" }

SampleStandardTimings == { [x |-> 1600, ratio |-> "Ratio_4_3", frequency |-> 75] }

Extension_empty ==
    [ underscan_it_formats_by_default |-> FALSE, audio_supported |-> FALSE,
      ycbcr_444_supported |-> FALSE, ycbcr_422_supported |-> FALSE,
      native_formats |-> 0, data_blocks |-> <<>>, timings |-> <<>> ]

Extension_video ==
    [ underscan_it_formats_by_default |-> TRUE, audio_supported |-> TRUE,
      ycbcr_444_supported |-> FALSE, ycbcr_422_supported |-> TRUE,
      native_formats |-> 1,
      data_blocks |-> << [kind |-> "Video",
                          v |-> << NativeShortVideoDescriptor(16), ShortVideoDescriptor(97) >>],
                         [kind |-> "VideoCapability",
                          v |-> [qy_quant |-> 0, qs_quant |-> 1, pt_scan |-> 0,
                                 it_scan |-> 3, ce_scan |-> 1]] >>,
      timings |-> << DetailedTiming_1600_1200 >> ]

SampleExtensions == { Extension_empty, Extension_video }

Chromaticity_color ==
    [ kind |-> "Color", white |-> <<313, 329>>, red |-> <<627, 341>>,
      green |-> <<292, 605>>, blue |-> <<149, 72>> ]

Chromaticity_mono == [ kind |-> "MonoChrome", white |-> <<313, 329>> ]

AnalogInput ==
    [ kind |-> "Analog", signal_level |-> 0, setup |-> 0,
      separate_hv_sync_signals |-> TRUE, composite_sync_signal_on_hsync |-> TRUE,
      composite_sync_signal_on_green_video |-> TRUE, serrations_on_vsync |-> TRUE ]

R3Features ==
    [ standby |-> FALSE, suspend |-> FALSE, active_off_is_very_low_power |-> TRUE,
      display_type |-> 1, srgb_default_color_space |-> FALSE,
      default_gtf_supported |-> TRUE ]

R4Features ==
    [ standby |-> TRUE, suspend |-> TRUE, active_off_is_very_low_power |-> TRUE,
      color |-> 1, srgb_default_color_space |-> FALSE,
      preferred_timing_mode_is_native |-> TRUE, continuous_frequency |-> FALSE ]

\* the facade fields that have no mutator: set once, by the typed setters
Facades ==
    { [ release |-> "R3", manufacturer |-> <<65, 66, 67>>, product_code |-> 62982,
        serial_number |-> [some |-> FALSE, v |-> 0],
        date |-> [kind |-> "Manufacture", has_week |-> FALSE, week |-> 0, year |-> 1997],
        display_parameters_features |->
            [ video_input |-> [kind |-> "Digital", dfp1_compatible |-> TRUE],
              size |-> [kind |-> "Size", horizontal_cm |-> 43, vertical_cm |-> 32],
              display_transfer_characteristic |-> [kind |-> "Gamma", centi |-> 220],
              feature_support |-> R3Features ],
        filter_chromaticity |-> Chromaticity_mono ],
      [ release |-> "R3", manufacturer |-> <<76, 78, 88>>, product_code |-> 42,
        serial_number |-> [some |-> TRUE, v |-> 305419896],
        date |-> [kind |-> "Manufacture", has_week |-> TRUE, week |-> 53, year |-> 2246],
        display_parameters_features |->
            [ video_input |-> AnalogInput,
              size |-> [kind |-> "Undefined"],
              display_transfer_characteristic |-> [kind |-> "Gamma", centi |-> 354],
              feature_support |-> R3Features ],
        filter_chromaticity |-> Chromaticity_color ],
      [ release |-> "R4", manufacturer |-> <<65, 66, 67>>, product_code |-> 62982,
        serial_number |-> [some |-> TRUE, v |-> 1],
        date |-> [kind |-> "Manufacture", has_week |-> TRUE, week |-> 1, year |-> 2007],
        display_parameters_features |->
            [ video_input |-> AnalogInput,
              size |-> [kind |-> "Size", horizontal_cm |-> 43, vertical_cm |-> 32],
              display_transfer_characteristic |-> [kind |-> "Gamma", centi |-> 220],
              feature_support |-> R4Features ],
        filter_chromaticity |-> Chromaticity_color ],
      [ release |-> "R4", manufacturer |-> <<90, 90, 90>>, product_code |-> 65535,
        serial_number |-> [some |-> FALSE, v |-> 0],
        date |-> [kind |-> "Model", has_week |-> FALSE, week |-> 0, year |-> 2006],
        display_parameters_features |->
            [ video_input |-> [kind |-> "Digital", color_depth |-> 2, interface |-> 5],
              size |-> [kind |-> "LandscapeRatio", num |-> 16, denum |-> 9],
              display_transfer_characteristic |-> [kind |-> "DisplayInformationExtension"],
              feature_support |-> R4Features ],
        filter_chromaticity |-> Chromaticity_mono ] }

(***************************************************************************)
(* The EdidRelease3 / EdidRelease4 builders and their encoding             *)
(***************************************************************************)
VARIABLES
    release,                      \* "R3" for EdidRelease3, "R4" for EdidRelease4
    manufacturer, product_code, serial_number, date,
    display_parameters_features, filter_chromaticity,
    established_timings, standard_timings, descriptors, extensions,
    pc,                           \* "hdmi", "video", "builder", "bytes" or "panic"
    out,                          \* the bytes into_bytes returned
    hdmi,                         \* the HdmiEdid being converted, if any
    video_block,                  \* the descriptors of a video data block builder
    input,                        \* the value handed to a constructor or an encoder
    err                           \* the error a constructor returned, if any

vars ==
    << release, manufacturer, product_code, serial_number, date,
       display_parameters_features, filter_chromaticity,
       established_timings, standard_timings, descriptors, extensions,
       pc, out, hdmi, video_block, input, err >>

fixed_fields ==
    << release, manufacturer, product_code, serial_number, date,
       display_parameters_features, filter_chromaticity >>

NoHdmi == [present |-> FALSE]

\* no constructor is under study / no constructor has failed
NoInput == "none"

NoError == "none"

\* the number of list elements the builder holds
Items ==
    Len(established_timings) + Len(standard_timings) + Len(descriptors) + Len(extensions)

\* EdidRelease3::builder() / EdidRelease4::builder() with the required fields set:
\* established_timings defaults to [ET_640_480_60hz], the other lists to empty
BuilderInit(f) ==
    /\ release = f.release
    /\ manufacturer = f.manufacturer
    /\ product_code = f.product_code
    /\ serial_number = f.serial_number
    /\ date = f.date
    /\ display_parameters_features = f.display_parameters_features
    /\ filter_chromaticity = f.filter_chromaticity
    /\ established_timings = << "ET_640_480_60hz" >>
    /\ standard_timings = <<>>
    /\ descriptors = <<>>
    /\ extensions = <<>>

Init ==
    /\ \E f \in Facades : BuilderInit(f)
    /\ pc = "builder"
    /\ out = <<>>
    /\ hdmi = NoHdmi
    /\ video_block = <<>>
    /\ input = NoInput
    /\ err = NoError

\* mutator descriptors(d)
SetDescriptors ==
    /\ pc = "builder"
    /\ \E d \in SeqsUpTo(SampleDescriptors, MaxListArg) :
          /\ Items - Len(descriptors) + Len(d) <= MaxItems
          /\ descriptors' = d
    /\ UNCHANGED << fixed_fields, established_timings, standard_timings, extensions,
                    pc, out, hdmi, video_block, input, err >>

\* mutator add_descriptor(d)
AddDescriptor ==
    /\ pc = "builder"
    /\ Items < MaxItems
    /\ \E d \in SampleDescriptors : descriptors' = Append(descriptors, d)
    /\ UNCHANGED << fixed_fields, established_timings, standard_timings, extensions,
                    pc, out, hdmi, video_block, input, err >>

\* mutator established_timings(et)
SetEstablishedTimings ==
    /\ pc = "builder"
    /\ \E et \in SeqsUpTo(SampleEstablishedTimings, MaxListArg) :
          /\ Items - Len(established_timings) + Len(et) <= MaxItems
          /\ established_timings' = et
    /\ UNCHANGED << fixed_fields, standard_timings, descriptors, extensions,
                    pc, out, hdmi, video_block, input, err >>

\* mutator add_established_timing(et)
AddEstablishedTiming ==
    /\ pc = "builder"
    /\ Items < MaxItems
    /\ \E et \in SampleEstablishedTimings :
          established_timings' = Append(established_timings, et)
    /\ UNCHANGED << fixed_fields, standard_timings, descriptors, extensions,
                    pc, out, hdmi, video_block, input, err >>

\* mutator standard_timings(st)
SetStandardTimings ==
    /\ pc = "builder"
    /\ \E st \in SeqsUpTo(SampleStandardTimings, MaxListArg) :
          /\ Items - Len(standard_timings) + Len(st) <= MaxItems
          /\ standard_timings' = st
    /\ UNCHANGED << fixed_fields, established_timings, descriptors, extensions,
                    pc, out, hdmi, video_block, input, err >>

\* mutator add_standard_timing(st)
AddStandardTiming ==
    /\ pc = "builder"
    /\ Items < MaxItems
    /\ \E st \in SampleStandardTimings : standard_timings' = Append(standard_timings, st)
    /\ UNCHANGED << fixed_fields, established_timings, descriptors, extensions,
                    pc, out, hdmi, video_block, input, err >>

\* mutator extensions(ext)
SetExtensions ==
    /\ pc = "builder"
    /\ \E ext \in SeqsUpTo(SampleExtensions, MaxListArg) :
          /\ Items - Len(extensions) + Len(ext) <= MaxItems
          /\ extensions' = ext
    /\ UNCHANGED << fixed_fields, established_timings, standard_timings, descriptors,
                    pc, out, hdmi, video_block, input, err >>

\* mutator add_extension(ext)
AddExtension ==
    /\ pc = "builder"
    /\ Items < MaxItems
    /\ \E ext \in SampleExtensions : extensions' = Append(extensions, ext)
    /\ UNCHANGED << fixed_fields, established_timings, standard_timings, descriptors,
                    pc, out, hdmi, video_block, input, err >>

\* From<EdidRelease3> for Edid / From<EdidRelease4> for Edid, after build()
Model ==
    [ release |-> release, manufacturer |-> manufacturer, product_code |-> product_code,
      serial_number |-> serial_number, date |-> date,
      bdpf |-> display_parameters_features, chroma_coord |-> filter_chromaticity,
      established_timings |-> established_timings, standard_timings |-> standard_timings,
      descriptors |-> descriptors, extensions |-> extensions ]

\* build() and into_bytes() of the facade; the build is made with or without
\* overflow checks
IntoBytes ==
    /\ pc = "builder"
    /\ \E overflow_checks \in BOOLEAN :
          IF Edid_panics(Model, overflow_checks)
          THEN pc' = "panic" /\ out' = <<>>
          ELSE pc' = "bytes" /\ out' = Edid_into_bytes(Model)
    /\ UNCHANGED << fixed_fields, established_timings, standard_timings, descriptors,
                    extensions, hdmi, video_block, input, err >>

Next ==
    \/ SetDescriptors
    \/ AddDescriptor
    \/ SetEstablishedTimings
    \/ AddEstablishedTiming
    \/ SetStandardTimings
    \/ AddStandardTiming
    \/ SetExtensions
    \/ AddExtension
    \/ IntoBytes

Spec == Init /\ [][Next]_vars

(***************************************************************************)
(* The video data block builder (EdidExtensionCTA861VideoDataBlock)        *)
(***************************************************************************)
SampleVics == { 1, 63, 64, 200 }

\* the values the public constructors of a short video descriptor give
ConstructedVideoDescs ==
    { ShortVideoDescriptor(vic) : vic \in SampleVics }
    \cup { NativeShortVideoDescriptor(vic) : vic \in SampleVics }
    \cup { VideoDataBlockDesc_deserialize(a[1], a[2], a[3]) :
             a \in { b \in SampleVics \X BOOLEAN \X BOOLEAN :
                       VideoDataBlockDesc_deserialize_ok(b[1], b[2], b[3]) } }

\* no Edid builder exists yet: its required fields are unset, its lists empty
Unset == "unset"

BuilderUnset ==
    /\ release = Unset
    /\ manufacturer = Unset
    /\ product_code = Unset
    /\ serial_number = Unset
    /\ date = Unset
    /\ display_parameters_features = Unset
    /\ filter_chromaticity = Unset
    /\ established_timings = <<>>
    /\ standard_timings = <<>>
    /\ descriptors = <<>>
    /\ extensions = <<>>

edid_builder ==
    << fixed_fields, established_timings, standard_timings, descriptors, extensions >>

\* EdidExtensionCTA861VideoDataBlock::builder()
InitVideo ==
    /\ BuilderUnset
    /\ pc = "video"
    /\ out = <<>>
    /\ hdmi = NoHdmi
    /\ video_block = <<>>
    /\ input = NoInput
    /\ err = NoError

\* mutator descriptors(desc)
VideoSetDescriptors ==
    /\ pc = "video"
    /\ \E desc \in SeqsUpTo(ConstructedVideoDescs, MaxListArg) : video_block' = desc
    /\ UNCHANGED << edid_builder, pc, out, hdmi, input, err >>

\* mutator add_short_video_descriptor(vic)
VideoAddShort ==
    /\ pc = "video"
    /\ Len(video_block) < MaxVideoDescs
    /\ \E vic \in SampleVics : video_block' = Append(video_block, ShortVideoDescriptor(vic))
    /\ UNCHANGED << edid_builder, pc, out, hdmi, input, err >>

\* mutator add_native_short_video_descriptor(vic)
VideoAddNative ==
    /\ pc = "video"
    /\ Len(video_block) < MaxVideoDescs
    /\ \E vic \in SampleVics :
          video_block' = Append(video_block, NativeShortVideoDescriptor(vic))
    /\ UNCHANGED << edid_builder, pc, out, hdmi, input, err >>

\* one more element of `descriptors` read by Deserialize; an Err adds nothing
VideoDeserialize ==
    /\ pc = "video"
    /\ Len(video_block) < MaxVideoDescs
    /\ \E vic \in SampleVics, has_native \in BOOLEAN, native \in BOOLEAN :
          /\ VideoDataBlockDesc_deserialize_ok(vic, has_native, native)
          /\ video_block' =
                Append(video_block, VideoDataBlockDesc_deserialize(vic, has_native, native))
    /\ UNCHANGED << edid_builder, pc, out, hdmi, input, err >>

\* build() and EdidExtensionCTA861VideoDataBlock::into_bytes
VideoIntoBytes ==
    /\ pc = "video"
    /\ IF EdidExtensionCTA861VideoDataBlock_panics(video_block)
       THEN pc' = "panic" /\ out' = <<>>
       ELSE pc' = "bytes" /\ out' = EdidExtensionCTA861VideoDataBlock_into_bytes(video_block)
    /\ UNCHANGED << edid_builder, hdmi, video_block, input, err >>

NextVideo ==
    \/ VideoSetDescriptors
    \/ VideoAddShort
    \/ VideoAddNative
    \/ VideoDeserialize
    \/ VideoIntoBytes

SpecVideo == InitVideo /\ [][NextVideo]_vars

(***************************************************************************)
(* The Hdmi facade (HdmiEdid)                                              *)
(***************************************************************************)
DisplayRangeLimits_sample ==
    [ vfreq_hz |-> <<50, 90>>, hfreq_khz |-> <<30, 110>>, max_pixelclock_mhz |-> 230,
      timings_support |-> [kind |-> "DefaultGTF"] ]

\* an HdmiEdid value; the CTA-861 extension and the extra lists vary
HdmiEdid(cta, ds, xs) ==
    [ present |-> TRUE,
      manufacturer |-> <<65, 66, 67>>, product_code |-> 4660,
      product_name |-> <<72, 68, 77, 73>>,
      date |-> [kind |-> "Manufacture", has_week |-> TRUE, week |-> 12, year |-> 2020],
      filter_chromaticity |-> Chromaticity_color,
      display_parameters_features |->
          [ video_input |-> [kind |-> "Digital", dfp1_compatible |-> TRUE],
            size |-> [kind |-> "Size", horizontal_cm |-> 160, vertical_cm |-> 90],
            display_transfer_characteristic |-> [kind |-> "Gamma", centi |-> 220],
            feature_support |-> R3Features ],
      limits |-> DisplayRangeLimits_sample,
      preferred_timing |-> DetailedTiming_1600_1200,
      cta861_extension |-> cta,
      descriptors |-> ds,
      extensions |-> xs ]

InitHdmi ==
    /\ BuilderUnset
    /\ pc = "hdmi"
    /\ out = <<>>
    /\ \E cta \in SampleExtensions :
       \E ds \in SeqsUpTo(SampleDescriptors, MaxListArg) :
       \E xs \in SeqsUpTo(SampleExtensions, MaxListArg) :
          hdmi = HdmiEdid(cta, ds, xs)
    /\ video_block = <<>>
    /\ input = NoInput
    /\ err = NoError

\* the builder's preferred_timing setter: the preferred timing is the first descriptor
PreferredTimingFirst(preferred_timing, ds) ==
    << [kind |-> "DetailedTiming", v |-> preferred_timing] >> \o ds

\* add_established_timing(ET_640_480_60hz) on the builder's default list
HdmiEdid_established_timings(h) == Append(<< "ET_640_480_60hz" >>, "ET_640_480_60hz")

\* add_descriptor(ProductName), add_descriptor(DisplayRangeLimits), then the
\* loop over value.descriptors
HdmiEdid_descriptors(h) ==
    << [kind |-> "ProductName", v |-> h.product_name],
       [kind |-> "DisplayRangeLimits", v |-> h.limits] >> \o h.descriptors

HdmiEdid_extensions_last(h) == h.extensions \o << h.cta861_extension >>

\* add_extension(CTA861(Revision3(value.cta861_extension))), then the loop over
\* value.extensions
HdmiEdid_extensions(h) == << h.cta861_extension >> \o h.extensions

\* From<HdmiEdid> for EdidRelease3
HdmiFrom ==
    /\ pc = "hdmi"
    /\ release' = "R3"
    /\ manufacturer' = hdmi.manufacturer
    /\ product_code' = hdmi.product_code
    /\ serial_number' = [some |-> FALSE, v |-> 0]
    /\ date' = hdmi.date
    /\ filter_chromaticity' = hdmi.filter_chromaticity
    /\ display_parameters_features' = hdmi.display_parameters_features
    /\ established_timings' = HdmiEdid_established_timings(hdmi)
    /\ standard_timings' = <<>>
    /\ descriptors' = PreferredTimingFirst(hdmi.preferred_timing, HdmiEdid_descriptors(hdmi))
    /\ extensions' = HdmiEdid_extensions(hdmi)
    /\ pc' = "builder"
    /\ UNCHANGED << out, hdmi, video_block, input, err >>

\* <HdmiEdid as IntoBytes>::into_bytes: EdidRelease3::from(self).into_bytes()
NextHdmi ==
    \/ HdmiFrom
    \/ IntoBytes

SpecHdmi == InitHdmi /\ [][NextHdmi]_vars

(***************************************************************************)
(* String descriptors: EdidDescriptorString::try_from, then into_bytes of  *)
(* the descriptor holding the string                                       *)
(***************************************************************************)
\* <EdidTypeConversionError as fmt::Display>::fmt; a Range error here always has
\* both ends
EdidTypeConversionError_fmt(e) ==
    CASE e.kind = "Range" ->
            "Value out of range: " \o ToString(e.v)
            \o " (Range: " \o ToString(e.min) \o "..=" \o ToString(e.max) \o ")"
      [] e.kind = "Value" -> "Invalid Value: " \o e.s

MaxStrLen == 14

\* chars of a String as code points; 233 is outside ASCII.  A String holding
\* only ASCII has as many bytes as chars, so len() is Len for every string
\* that passes the is_ascii() test made first.
SampleChars == { 65, 122 }

NonAsciiChar == 233

SampleStrings ==
    { [i \in 1..n |-> IF i = p THEN NonAsciiChar ELSE c] :
        n \in 0..MaxStrLen, p \in 0..MaxStrLen, c \in SampleChars }

StringDescriptorKinds == { "ProductName", "DataString", "ProductSerialNumber" }

InitString ==
    /\ BuilderUnset
    /\ pc = "try_from"
    /\ out = <<>>
    /\ hdmi = NoHdmi
    /\ video_block = <<>>
    /\ \E kind \in StringDescriptorKinds, str \in SampleStrings :
          input = [kind |-> kind, v |-> str]
    /\ err = NoError

\* <EdidDescriptorString as TryFrom<String>>::try_from
StringTryFrom ==
    /\ pc = "try_from"
    /\ IF EdidDescriptorString_try_from(input.v)
       THEN pc' = "ok" /\ err' = NoError
       ELSE /\ pc' = "err"
            /\ err' = EdidTypeConversionError_fmt(
                          [ kind |-> "Value",
                            s |-> IF \E i \in 1..Len(input.v) : input.v[i] >= 128
                                  THEN "String must be ASCII."
                                  ELSE "String is too long." ])
    /\ UNCHANGED << edid_builder, out, hdmi, video_block, input >>

\* <EdidDescriptor as IntoBytes>::into_bytes on ProductName(s), DataString(s) or
\* ProductSerialNumber(s)
StringIntoBytes ==
    /\ pc = "ok"
    /\ IF Descriptor_panics(input, TRUE)
       THEN pc' = "panic" /\ out' = <<>>
       ELSE pc' = "bytes" /\ out' = Descriptor_bytes(input)
    /\ UNCHANGED << edid_builder, hdmi, video_block, input, err >>

NextString ==
    \/ StringTryFrom
    \/ StringIntoBytes

SpecString == InitString /\ [][NextString]_vars

(***************************************************************************)
(* Custom descriptors: EdidDescriptorCustom::try_from((tag, payload)), then *)
(* into_bytes                                                              *)
(***************************************************************************)
MaxPayloadLen == 14

SampleTags == { 0, 15, 16, 255 }

SamplePayloads == { [i \in 1..n |-> b] : n \in 0..MaxPayloadLen, b \in { 0, 237 } }

\* the two copies of descriptors.rs differ in the range the tag error reports
DescriptorsCopies == { "src/descriptors.rs", "redid/src/descriptors.rs" }

\* the last value of the range EdidDescriptorCustomTag::try_from reports
EdidDescriptorCustomTag_range_end(copy) ==
    IF copy = "src/descriptors.rs" THEN 16 ELSE 15

\* the Err of EdidDescriptorCustom::try_from: `?` on the tag, then on the payload
EdidDescriptorCustom_try_from_err(copy, c) ==
    IF c.tag > 15
    THEN [ kind |-> "Range", v |-> c.tag, min |-> 0,
           max |-> EdidDescriptorCustomTag_range_end(copy) ]
    ELSE [ kind |-> "Value",
           s |-> "Custom Descriptor Payload must be at most 13 bytes long." ]

InitCustom ==
    /\ BuilderUnset
    /\ pc = "try_from"
    /\ out = <<>>
    /\ hdmi = NoHdmi
    /\ video_block = <<>>
    /\ \E copy \in DescriptorsCopies, tag \in SampleTags, payload \in SamplePayloads :
          input = [copy |-> copy, tag |-> tag, payload |-> payload]
    /\ err = NoError

\* <EdidDescriptorCustom as TryFrom<(u8, Vec<u8>)>>::try_from
CustomTryFrom ==
    /\ pc = "try_from"
    /\ IF EdidDescriptorCustom_try_from(input)
       THEN pc' = "ok" /\ err' = NoError
       ELSE /\ pc' = "err"
            /\ err' = EdidTypeConversionError_fmt(
                          EdidDescriptorCustom_try_from_err(input.copy, input))
    /\ UNCHANGED << edid_builder, out, hdmi, video_block, input >>

\* <EdidDescriptorCustom as IntoBytes>::into_bytes
CustomIntoBytes ==
    /\ pc = "ok"
    /\ pc' = "bytes"
    /\ out' = EdidDescriptorCustom_into_bytes(input)
    /\ UNCHANGED << edid_builder, hdmi, video_block, input, err >>

NextCustom ==
    \/ CustomTryFrom
    \/ CustomIntoBytes

SpecCustom == InitCustom /\ [][NextCustom]_vars

(***************************************************************************)
(* Dates: EdidManufactureDate / EdidR4ManufactureDate / EdidR4ModelDate    *)
(* try_from, then into_bytes                                               *)
(***************************************************************************)
SampleWeeks == { 0, 1, 53, 54, 55 }

SampleYears == { 1989, 1990, 2006, 2245, 2246 }

\* the arguments of the date constructors: (week, year) or year for a
\* manufacture date of either release, year for a Release 4 model date
SampleDates ==
    { [release |-> r, kind |-> "Manufacture", has_week |-> TRUE, week |-> w, year |-> y] :
        r \in {"R3", "R4"}, w \in SampleWeeks, y \in SampleYears }
    \cup { [release |-> r, kind |-> "Manufacture", has_week |-> FALSE, week |-> 0, year |-> y] :
              r \in {"R3", "R4"}, y \in SampleYears }
    \cup { [release |-> "R4", kind |-> "Model", has_week |-> FALSE, week |-> 0, year |-> y] :
              y \in SampleYears }

InitDate ==
    /\ BuilderUnset
    /\ pc = "try_from"
    /\ out = <<>>
    /\ hdmi = NoHdmi
    /\ video_block = <<>>
    /\ input \in SampleDates
    /\ err = NoError

\* the try_from of the date types: the week is converted first, then the year
DateTryFrom ==
    /\ pc = "try_from"
    /\ LET ok == IF input.release = "R3" THEN EdidManufactureDate_try_from(input)
                 ELSE EdidR4Date_try_from(input)
           week_ok == IF input.release = "R3" THEN EdidWeek_try_from(input.week)
                      ELSE EdidR4Week_try_from(input.week)
       IN IF ok
          THEN pc' = "ok" /\ err' = NoError
          ELSE /\ pc' = "err"
               /\ err' = IF input.has_week /\ ~week_ok
                          THEN [ kind |-> "Range", v |-> input.week, min |-> 1,
                                 max |-> IF input.release = "R3" THEN 53 ELSE 54 ]
                          ELSE [ kind |-> "Range", v |-> input.year, min |-> 1990 ]
    /\ UNCHANGED << edid_builder, out, hdmi, video_block, input >>

\* into_bytes of the date types
DateIntoBytes ==
    /\ pc = "ok"
    /\ IF EdidDate_panics(input)
       THEN pc' = "panic" /\ out' = <<>>
       ELSE pc' = "bytes" /\ out' = EdidDate_into_bytes(input)
    /\ UNCHANGED << edid_builder, hdmi, video_block, input, err >>

NextDate ==
    \/ DateTryFrom
    \/ DateIntoBytes

SpecDate == InitDate /\ [][NextDate]_vars

(***************************************************************************)
(* Detailed timings: the field constructors, then into_bytes as a          *)
(* descriptor of the base block or as a timing of a CTA-861 extension      *)
(***************************************************************************)
SampleDetailedTimings ==
    { [ DetailedTiming_1600_1200 EXCEPT
          !.pixel_clock = pc_khz,
          !.horizontal = [ active |-> 1600, front_porch |-> hfp, sync_pulse |-> 192,
                           back_porch |-> hbp, border |-> hb, size_mm |-> 427 ],
          !.vertical = [ active |-> 1200, front_porch |-> vfp, sync_pulse |-> 3,
                         back_porch |-> vbp, border |-> vb, size_mm |-> 320 ] ] :
        pc_khz \in { 162000, 655350 },
        hfp \in { 64, 1023 }, hbp \in { 304, 4095 }, hb \in { 0, 255 },
        vfp \in { 1, 60, 64 }, vbp \in { 46, 4095 }, vb \in { 0, 8, 200 } }

InitDtd ==
    /\ BuilderUnset
    /\ pc = "try_from"
    /\ out = <<>>
    /\ hdmi = NoHdmi
    /\ video_block = <<>>
    /\ \E dt \in SampleDetailedTimings, place \in { "descriptor", "cta861" } :
          input = [ dt |-> dt, place |-> place ]
    /\ err = NoError

\* the try_from of every field, then the builders' build()
DtdTryFrom ==
    /\ pc = "try_from"
    /\ IF EdidDescriptorDetailedTiming_try_from(input.dt)
       THEN pc' = "ok" /\ err' = NoError
       ELSE pc' = "err" /\ err' = [ kind |-> "Range" ]
    /\ UNCHANGED << edid_builder, out, hdmi, video_block, input >>

\* the CTA-861 extension holding the timing alone
DtdExtension(dt) == [ Extension_empty EXCEPT !.timings = << dt >> ]

\* into_bytes of EdidR3Descriptor::DetailedTiming(dt), or the 18 bytes that
\* follow the header of the extension holding dt; the build is made with or
\* without overflow checks
DtdIntoBytes ==
    /\ pc = "ok"
    /\ \E overflow_checks \in BOOLEAN :
          IF EdidDescriptorDetailedTiming_panics(input.dt, overflow_checks)
          THEN pc' = "panic" /\ out' = <<>>
          ELSE /\ pc' = "bytes"
               /\ out' = IF input.place = "descriptor"
                          THEN Descriptor_bytes([kind |-> "DetailedTiming", v |-> input.dt])
                          ELSE Slice(EdidExtensionCTA861Revision3_into_bytes(
                                        DtdExtension(input.dt)), 4, 21)
    /\ UNCHANGED << edid_builder, hdmi, video_block, input, err >>

NextDtd ==
    \/ DtdTryFrom
    \/ DtdIntoBytes

SpecDtd == InitDtd /\ [][NextDtd]_vars

(***************************************************************************)
(* CTA-861 data blocks: a block as its builder gives it, then into_bytes   *)
(***************************************************************************)
MaxBlockItems == 32

\* an LPCM descriptor: 2 channels, 32 / 44.1 / 48 kHz, 16 / 20 / 24 bits
AudioDesc_sample ==
    [ channels |-> 2, sampling_frequencies |-> << 0, 1, 2 >>, sampling_rates |-> << 0, 1, 2 >> ]

HdmiDataBlock_sample(flags, tmds, video, n) ==
    [ source_physical_address |-> << 1, 0, 0, 0 >>,
      flags |-> flags,
      max_tmds_rate_mhz |-> [some |-> tmds, v |-> 340],
      video |-> [some |-> video, vics |-> [i \in 1..n |-> 1 + (i % 4)]] ]

InitBlock ==
    /\ BuilderUnset
    /\ pc = "block"
    /\ out = <<>>
    /\ hdmi = NoHdmi
    /\ video_block = <<>>
    /\ \/ \E n \in 0..MaxBlockItems :
             input = [kind |-> "Audio", v |-> [i \in 1..n |-> AudioDesc_sample]]
       \/ \E n \in 0..MaxBlockItems, native \in BOOLEAN :
             input = [kind |-> "Video",
                      v |-> [i \in 1..n |-> IF native /\ i = 1
                                            THEN NativeShortVideoDescriptor(i)
                                            ELSE ShortVideoDescriptor(i + 60)]]
       \/ \E n \in 0..MaxBlockItems :
             input = [kind |-> "HDMI", v |-> HdmiDataBlock_sample({}, FALSE, TRUE, n)]
       \/ \E flags \in SUBSET { "dvi_dual", "deep_color_36_bits" }, tmds \in BOOLEAN :
             input = [kind |-> "HDMI", v |-> HdmiDataBlock_sample(flags, tmds, FALSE, 0)]
       \/ \E on \in SUBSET { "front_left_front_right", "top_center", "bottom_front_center" } :
             input = [kind |-> "SpeakerAllocation", v |-> on]
       \/ \E on \in SUBSET { "xv_ycc_601", "bt_2020_rgb", "dci_p3" } :
             input = [kind |-> "Colorimetry", v |-> on]
       \/ \E qs \in 0..1, it \in 0..3 :
             input = [kind |-> "VideoCapability",
                      v |-> [qy_quant |-> 0, qs_quant |-> qs, pt_scan |-> 0,
                             it_scan |-> it, ce_scan |-> 1]]
    /\ err = NoError

\* <EdidExtensionCTA861Revision3DataBlock as IntoBytes>::into_bytes
BlockIntoBytes ==
    /\ pc = "block"
    /\ IF DataBlock_panics(input)
       THEN pc' = "panic" /\ out' = <<>>
       ELSE pc' = "bytes" /\ out' = DataBlock_into_bytes(input)
    /\ UNCHANGED << edid_builder, hdmi, video_block, input, err >>

NextBlock == BlockIntoBytes

SpecBlock == InitBlock /\ [][NextBlock]_vars

(***************************************************************************)
(* The EdidExtensionCTA861Revision3 builder and its encoding               *)
(***************************************************************************)
MaxCtaBlocks == 4

MaxCtaTimings == 2

\* data blocks by number; four blocks like the last one are 128 bytes long
NumSampleDataBlocks == 3

SampleDataBlock(k) ==
    CASE k = 1 -> [kind |-> "Video",
                   v |-> << NativeShortVideoDescriptor(16), ShortVideoDescriptor(97) >>]
      [] k = 2 -> [kind |-> "Audio", v |-> << AudioDesc_sample >>]
      [] k = 3 -> [kind |-> "Video", v |-> [i \in 1..31 |-> ShortVideoDescriptor(i)]]

SampleTimings ==
    { DetailedTiming_1600_1200, [DetailedTiming_1600_1200 EXCEPT !.pixel_clock = 148500] }

\* EdidExtensionCTA861Revision3::builder() with native_formats set
InitCta ==
    /\ BuilderUnset
    /\ pc = "cta861"
    /\ out = <<>>
    /\ hdmi = NoHdmi
    /\ video_block = <<>>
    /\ input = Extension_empty
    /\ err = NoError

\* mutator data_blocks(blocks)
CtaSetDataBlocks ==
    /\ pc = "cta861"
    /\ \E ks \in SeqsUpTo(1..NumSampleDataBlocks, MaxListArg) :
          input' = [input EXCEPT !.data_blocks = [i \in 1..Len(ks) |-> SampleDataBlock(ks[i])]]
    /\ UNCHANGED << edid_builder, pc, out, hdmi, video_block, err >>

\* mutator add_data_block(block)
CtaAddDataBlock ==
    /\ pc = "cta861"
    /\ Len(input.data_blocks) < MaxCtaBlocks
    /\ \E k \in 1..NumSampleDataBlocks :
          input' = [input EXCEPT !.data_blocks = Append(@, SampleDataBlock(k))]
    /\ UNCHANGED << edid_builder, pc, out, hdmi, video_block, err >>

\* mutator detailed_timing_descriptors(dtd)
CtaSetTimings ==
    /\ pc = "cta861"
    /\ \E dtd \in SeqsUpTo(SampleTimings, MaxListArg) :
          input' = [input EXCEPT !.timings = dtd]
    /\ UNCHANGED << edid_builder, pc, out, hdmi, video_block, err >>

\* mutator add_detailed_timing_descriptor(dtd)
CtaAddTiming ==
    /\ pc = "cta861"
    /\ Len(input.timings) < MaxCtaTimings
    /\ \E dtd \in SampleTimings :
          input' = [input EXCEPT !.timings = Append(@, dtd)]
    /\ UNCHANGED << edid_builder, pc, out, hdmi, video_block, err >>

\* build() and EdidExtensionCTA861Revision3::into_bytes
CtaIntoBytes ==
    /\ pc = "cta861"
    /\ \E overflow_checks \in BOOLEAN :
          IF EdidExtensionCTA861Revision3_panics(input, overflow_checks)
          THEN pc' = "panic" /\ out' = <<>>
          ELSE pc' = "bytes" /\ out' = EdidExtensionCTA861Revision3_into_bytes(input)
    /\ UNCHANGED << edid_builder, hdmi, video_block, input, err >>

NextCta ==
    \/ CtaSetDataBlocks
    \/ CtaAddDataBlock
    \/ CtaSetTimings
    \/ CtaAddTiming
    \/ CtaIntoBytes

SpecCta == InitCta /\ [][NextCta]_vars

(***************************************************************************)
(* The test oracle edid_equals (src/tests/tests.rs)                        *)
(***************************************************************************)
\* a ^ b
BitXor(a, b) == BitOr(a, b) - BitAnd(a, b)

\* compare_unordered_slots::<2, 16>: the sorted lists of 2-byte chunks are equal,
\* that is, every chunk occurs as often in one slice as in the other
compare_unordered_slots(val, expected) ==
    LET chunk(b, k) == << b[2 * k - 1], b[2 * k] >>
    IN \A k \in 1..8 :
          Cardinality({ j \in 1..8 : chunk(val, j) = chunk(val, k) })
          = Cardinality({ j \in 1..8 : chunk(expected, j) = chunk(val, k) })

\* the branch `(i > 0x36) && ((i - 0x36) % 18) == 17` with `diff == 1`, taken for
\* a byte that differs
StereoBranch(current, expected, i) ==
    /\ At(current, i) # At(expected, i)
    /\ i > 54
    /\ (i - 54) % 18 = 17
    /\ BitAnd(BitXor(At(current, i), At(expected, i)), 97) = 1

\* checksum_offset after index i (i = 71, 89, ...): the sum of `b[j] - diff` over
\* the indices j <= i that took the stereo branch, without the u8 wrap
RECURSIVE checksum_offset(_, _, _, _)
checksum_offset(b, current, expected, i) ==
    IF i < 71 THEN 0
    ELSE (IF StereoBranch(current, expected, i) THEN WrappingSub8(At(b, i), 1) ELSE 0)
         + checksum_offset(b, current, expected, i - 18)

\* the loop body reaches `continue` for index i
edid_equals_continue(current, expected, i) ==
    \/ At(current, i) = At(expected, i)
    \/ StereoBranch(current, expected, i)
    \/ compare_unordered_slots(Slice(current, 38, 53), Slice(expected, 38, 53))
    \/ /\ i = 127
       /\ WrappingSub8(At(current, i), checksum_offset(expected, current, expected, 125) % 256)
          = WrappingSub8(At(expected, i), checksum_offset(current, current, expected, 125) % 256)

edid_equals(current, expected) ==
    /\ Len(current) = Len(expected)
    /\ \A i \in 0..(Len(expected) - 1) : edid_equals_continue(current, expected, i)

\* with overflow checks `current[i] - diff` and `checksum_offset[..] += ..` panic
\* on overflow; the slice 0x26..0x36 panics on a blob shorter than 54 bytes
edid_equals_panics(current, expected, overflow_checks) ==
    /\ Len(current) = Len(expected)
    /\ \E i \in 0..(Len(expected) - 1) :
          /\ \A j \in 0..(i - 1) : edid_equals_continue(current, expected, j)
          /\ \/ /\ overflow_checks
                /\ StereoBranch(current, expected, i)
                /\ \/ At(current, i) = 0
                   \/ At(expected, i) = 0
                   \/ checksum_offset(current, current, expected, i) > 255
                   \/ checksum_offset(expected, current, expected, i) > 255
             \/ /\ At(current, i) # At(expected, i)
                /\ Len(expected) < 54

\* the expected blob of a comparison: an encoded Release 3 EDID with a detailed
\* timing and a standard timing
OracleExpected ==
    LET f == CHOOSE g \in Facades : g.release = "R3" /\ g.date.year = 1997
    IN Edid_into_bytes(
          [ release |-> "R3", manufacturer |-> f.manufacturer,
            product_code |-> f.product_code, serial_number |-> f.serial_number,
            date |-> f.date, bdpf |-> f.display_parameters_features,
            chroma_coord |-> f.filter_chromaticity,
            established_timings |-> << "ET_640_480_60hz" >>,
            standard_timings |-> << CHOOSE st \in SampleStandardTimings : TRUE >>,
            descriptors |-> << [kind |-> "DetailedTiming", v |-> DetailedTiming_1600_1200] >>,
            extensions |-> <<>> ])

SampleOffsets == { 8, 37, 38, 53, 54, 70, 71, 89, 125, 126, 127 }

SampleMasks == { 0, 1, 2, 129, 97 }

\* the current blob: the expected one e with the byte at offset i XORed with
\* mask, the first two standard-timing slots exchanged if swap, byte 40 changed
\* if slot, and the checksum computed again if fix
OracleCurrent(e, i, mask, swap, slot, fix) ==
    LET a == [e EXCEPT ![i + 1] = BitXor(e[i + 1], mask)]
        b == IF swap
             THEN [a EXCEPT ![39] = a[41], ![40] = a[42], ![41] = a[39], ![42] = a[40]]
             ELSE a
        c == IF slot THEN [b EXCEPT ![41] = BitXor(b[41], 4)] ELSE b
    IN IF fix THEN [c EXCEPT ![128] = Checksum(SubSeq(c, 1, 127))] ELSE c

InitOracle ==
    /\ BuilderUnset
    /\ pc = "edid_equals"
    /\ out = <<>>
    /\ hdmi = NoHdmi
    /\ video_block = <<>>
    /\ \E expected \in { OracleExpected } :
       \E i \in SampleOffsets, mask \in SampleMasks, swap, slot, fix, cut \in BOOLEAN :
       \E current \in { OracleCurrent(expected, i, mask, swap, slot, fix) } :
          input = [ current |-> IF cut THEN SubSeq(current, 1, 127) ELSE current,
                    expected |-> expected ]
    /\ err = NoError

\* edid_equals(current, expected), in a build with or without overflow checks
OracleCompare ==
    /\ pc = "edid_equals"
    /\ \E overflow_checks \in BOOLEAN :
          pc' = IF edid_equals_panics(input.current, input.expected, overflow_checks)
                THEN "panic"
                ELSE IF edid_equals(input.current, input.expected) THEN "true" ELSE "false"
    /\ UNCHANGED << edid_builder, out, hdmi, video_block, input, err >>

NextOracle == OracleCompare

SpecOracle == InitOracle /\ [][NextOracle]_vars

(***************************************************************************)
(* The flags byte of a CTA-861 Revision 3 extension: the builder's typed    *)
(* setters, then into_bytes                                                *)
(***************************************************************************)
\* native_formats: u8 values handed to the builder
SampleNativeFormats == { 0, 1, 2, 15, 16, 128, 255 }

\* EdidExtensionCTA861Revision3::builder() with the four flags and
\* native_formats set, and no or one detailed timing
InitCtaFlags ==
    /\ BuilderUnset
    /\ pc = "cta861"
    /\ out = <<>>
    /\ hdmi = NoHdmi
    /\ video_block = <<>>
    /\ \E underscan, audio, ycbcr_444, ycbcr_422 \in BOOLEAN,
          native \in SampleNativeFormats, dtd \in SeqsUpTo(SampleTimings, 1) :
          input = [ underscan_it_formats_by_default |-> underscan,
                    audio_supported |-> audio,
                    ycbcr_444_supported |-> ycbcr_444,
                    ycbcr_422_supported |-> ycbcr_422,
                    native_formats |-> native,
                    data_blocks |-> <<>>, timings |-> dtd ]
    /\ err = NoError

NextCtaFlags == CtaIntoBytes

SpecCtaFlags == InitCtaFlags /\ [][NextCtaFlags]_vars

(***************************************************************************)
(* The HDMI vendor-specific data block: the typed constructors of its      *)
(* fields, then into_bytes                                                 *)
(***************************************************************************)
SampleTmdsRates == { 4, 5, 6, 165, 338, 340, 341 }

SampleCecAddresses == { << 1, 0, 0, 0 >>, << 15, 2, 3, 4 >>, << 1, 16, 0, 0 >> }

SampleVicCounts == { 0, 1, 7, 8, 21, 22 }

SampleHdmiFlags == { {}, { "dvi_dual" }, { "acp_isrc", "deep_color_30_bits" } }

\* an EdidExtensionCTA861HdmiDataBlock as its builder gives it: the address and the
\* rate pass their try_from, the flags, the rate and the video part are optional
InitHdmiBlock ==
    /\ BuilderUnset
    /\ pc = "block"
    /\ out = <<>>
    /\ hdmi = NoHdmi
    /\ video_block = <<>>
    /\ \E address \in SampleCecAddresses, flags \in SampleHdmiFlags,
          tmds, video \in BOOLEAN, rate \in SampleTmdsRates, n \in SampleVicCounts :
          /\ CecAddress_try_from(address)
          /\ EdidExtensionCTA861Hdmi14bTmdsRate_try_from(rate)
          /\ tmds \/ rate = 5
          /\ video \/ n = 0
          /\ input = [kind |-> "HDMI",
                      v |-> [ source_physical_address |-> address,
                              flags |-> flags,
                              max_tmds_rate_mhz |-> [some |-> tmds, v |-> rate],
                              video |-> [some |-> video,
                                         vics |-> [i \in 1..n |-> 1 + (i % 4)]] ]]
    /\ err = NoError

NextHdmiBlock == BlockIntoBytes

SpecHdmiBlock == InitHdmiBlock /\ [][NextHdmiBlock]_vars

(***************************************************************************)
(* Display range limits: the frequency and range constructors, then        *)
(* into_bytes.  The repository holds two copies of descriptors.rs; the     *)
(* Release 4 type of src/src keeps four frequencies, each as (offset        *)
(* flag, byte), the one of src/redid/src keeps two ranges of u16.          *)
(***************************************************************************)
\* a frequency range min..max is << min, max >>; Range::is_empty is start >= end
Range_is_empty(r) == r[1] >= r[2]

\* TryFrom<u8> for EdidDisplayRangeLimitsFrequency: NonZero::new(value)
EdidDisplayRangeLimitsFrequency_try_from(value) == value # 0

\* TryFrom<u16> for EdidR4DisplayRangeLimitsFrequency
EdidR4DisplayRangeLimitsFrequency_try_from(value) == value # 0 /\ value <= 510

\* the Err of EdidR4DisplayRangeLimitsFrequency::try_from (of
\* EdidDisplayRangeLimitsFrequency::try_from for Release 3)
DisplayRangeLimitsFrequency_try_from_err(value) ==
    IF value = 0
    THEN [kind |-> "Value", s |-> "Frequency cannot be 0."]
    ELSE [kind |-> "Value", s |-> "Frequency cannot be higher than 510."]

\* TryFrom<Range<u8>> for EdidDisplayRangeLimitsRangeFreq
EdidDisplayRangeLimitsRangeFreq_try_from(r) ==
    /\ ~Range_is_empty(r)
    /\ EdidDisplayRangeLimitsFrequency_try_from(r[1])
    /\ EdidDisplayRangeLimitsFrequency_try_from(r[2])

\* EdidR4DisplayRangeLimitsRangeFreq::try_from without its is_empty() test
EdidR4DisplayRangeLimitsRangeFreq_try_from_unchecked(r) ==
    /\ EdidR4DisplayRangeLimitsFrequency_try_from(r[1])
    /\ EdidR4DisplayRangeLimitsFrequency_try_from(r[2])

\* TryFrom<Range<u16>> for EdidR4DisplayRangeLimitsRangeFreq
EdidR4DisplayRangeLimitsRangeFreq_try_from(r) ==
    /\ ~Range_is_empty(r)
    /\ EdidR4DisplayRangeLimitsFrequency_try_from(r[1])
    /\ EdidR4DisplayRangeLimitsFrequency_try_from(r[2])

\* the Err of the two range constructors: the emptiness test comes first, then
\* start.try_into()?, then end.try_into()?
DisplayRangeLimitsRangeFreq_try_from_err(rel, r) ==
    LET ok(value) == IF rel = "R3"
                     THEN EdidDisplayRangeLimitsFrequency_try_from(value)
                     ELSE EdidR4DisplayRangeLimitsFrequency_try_from(value)
    IN IF Range_is_empty(r)
       THEN [kind |-> "Value",
             s |-> "Empty Range: (" \o ToString(r[1]) \o ".." \o ToString(r[2]) \o ")"]
       ELSE IF ~ok(r[1]) THEN DisplayRangeLimitsFrequency_try_from_err(r[1])
       ELSE DisplayRangeLimitsFrequency_try_from_err(r[2])

\* TryFrom<u16> for EdidR4DisplayRangeHorizontalFreq / EdidR4DisplayRangeVerticalFreq
\* (src/src/descriptors.rs)
EdidR4DisplayRangeFreq_try_from(value) == value >= 1 /\ value <= 510

\* TryFrom<u16> for EdidDisplayRangePixelClock
EdidDisplayRangePixelClock_try_from(value) == value >= 1 /\ value <= 2550

\* what is kept of a Release 4 frequency, as << offset flag, byte >>: src/src stores
\* (value > 255, value or value - 255) at construction; src/redid/src takes the
\* high and the low byte of the u16 (to_be_bytes) at encoding
EdidR4DisplayRangeFreq_stored(copy, value) ==
    IF copy = "src/descriptors.rs"
    THEN (IF value > 255 THEN << TRUE, value - 255 >> ELSE << FALSE, value >>)
    ELSE << (value \div 256) > 0, value % 256 >>

\* the flags byte of EdidR4DisplayRangeLimits::into_bytes
EdidR4DisplayRangeLimits_flags(min_v, max_v, min_h, max_h) ==
    BitOr(IF max_v[1] THEN BitOr(Shl8(1, 1), IF min_v[1] THEN Shl8(1, 0) ELSE 0) ELSE 0,
          IF max_h[1] THEN BitOr(Shl8(1, 3), IF min_h[1] THEN Shl8(1, 2) ELSE 0) ELSE 0)

\* EdidR4DisplayRangeVideoTimingsAspectRatio as u8
EdidR4DisplayRangeVideoTimingsAspectRatio ==
    [ Ratio_4_3 |-> 0, Ratio_16_9 |-> 1, Ratio_16_10 |-> 2, Ratio_5_4 |-> 3,
      Ratio_15_9 |-> 4 ]

\* the loop `byte |= 1 << (7 - (ratio as u8))` (src/redid/src), or
\* `byte |= 1 << ((ratio as u8) + 3)` (src/src)
SupportedAspectRatios_byte(copy, ratios) ==
    OrBits([k \in 1..Len(ratios) |->
               IF copy = "src/descriptors.rs"
               THEN EdidR4DisplayRangeVideoTimingsAspectRatio[ratios[k]] + 3
               ELSE 7 - EdidR4DisplayRangeVideoTimingsAspectRatio[ratios[k]]])

\* EdidR4DisplayRangeVideoTimingsCVTPixelClockDiff::try_from(clock).into_raw()
EdidR4DisplayRangeVideoTimingsCVTPixelClockDiff_into_raw(mhz) ==
    (round_up(mhz, 10) - mhz) * 4

\* the CVTSupported arm of EdidR4DisplayRangeLimits::into_bytes
EdidR4DisplayRangeVideoTimingsCVT_bytes(copy, mhz, cvt) ==
    LET raw_max_pix == div_round_up(cvt.maximum_active_pixels_per_line, 8)
    IN << 4, 17,
          BitOr(Shl8(EdidR4DisplayRangeVideoTimingsCVTPixelClockDiff_into_raw(mhz), 2),
                AsU8(BitAnd(Shr(raw_max_pix, 8), 3))),
          AsU8(BitAnd(raw_max_pix, 255)),
          SupportedAspectRatios_byte(copy, cvt.supported_aspect_ratios),
          BitOr(Shl8(EdidR4DisplayRangeVideoTimingsAspectRatio[cvt.preferred_aspect_ratio], 5),
                FlagsByte(<< "", "", "", "standard_cvt_blanking_supported",
                             "reduced_cvt_blanking_supported" >>, cvt.flags)),
          FlagsByte(<< "", "", "", "", "vertical_stretch_supported",
                       "vertical_shrink_supported", "horizontal_stretch_supported",
                       "horizontal_shrink_supported" >>, cvt.flags),
          cvt.preferred_vertical_refresh_rate >>

\* EdidR4DisplayRangeLimits::into_bytes: 14 bytes from the flags byte on
EdidR4DisplayRangeLimits_into_bytes(copy, drl) ==
    LET min_v == EdidR4DisplayRangeFreq_stored(copy, drl.vfreq_hz[1])
        max_v == EdidR4DisplayRangeFreq_stored(copy, drl.vfreq_hz[2])
        min_h == EdidR4DisplayRangeFreq_stored(copy, drl.hfreq_khz[1])
        max_h == EdidR4DisplayRangeFreq_stored(copy, drl.hfreq_khz[2])
        t == drl.timings_support
    IN << EdidR4DisplayRangeLimits_flags(min_v, max_v, min_h, max_h),
          min_v[2], max_v[2], min_h[2], max_h[2],
          EdidDisplayRangePixelClock_into_raw(drl.max_pixelclock_mhz) >>
       \o (CASE t.kind = "DefaultGTF" -> << 0, 10, 32, 32, 32, 32, 32, 32 >>
             [] t.kind = "RangeLimitsOnly" -> << 1, 10, 32, 32, 32, 32, 32, 32 >>
             [] t.kind = "SecondaryGTF" ->
                   << 2, 0, t.horizontal_start_frequency \div 2,
                      AsU8(t.blanking_offset * 2),
                      AsU8(BitAnd(t.blanking_gradient, 255)),
                      AsU8(Shr(t.blanking_gradient, 8)),
                      t.blanking_scaling_factor,
                      AsU8(t.blanking_scaling_factor_weighting * 2) >>
             [] t.kind = "CVTSupported" ->
                   EdidR4DisplayRangeVideoTimingsCVT_bytes(copy, drl.max_pixelclock_mhz, t))

\* the u8 multiplications by 2 abort when the build has overflow checks; round_up
\* of src/src multiplies in u16 with checked_mul(...).expect(), div_ceil of
\* src/redid/src cannot overflow
EdidR4DisplayRangeLimits_panics(copy, drl, overflow_checks) ==
    LET t == drl.timings_support
    IN \/ /\ t.kind = "SecondaryGTF"
          /\ overflow_checks
          /\ \/ ~FitsU8(t.blanking_offset * 2)
             \/ ~FitsU8(t.blanking_scaling_factor_weighting * 2)
       \/ /\ t.kind = "CVTSupported"
          /\ copy = "src/descriptors.rs"
          /\ round_up(t.maximum_active_pixels_per_line, 8) > 65535

\* the values handed to the frequency constructors
SampleFrequencies == { 0, 1, 255, 256, 257, 510, 511 }

SampleHorizontalRanges == { << 30, 110 >>, << 255, 256 >>, << 256, 510 >>, << 300, 300 >> }

\* Vec<EdidR4DisplayRangeVideoTimingsAspectRatio> values handed to the mutators
SampleRatioLists ==
    { <<>>, << "Ratio_4_3" >>, << "Ratio_15_9" >>,
      << "Ratio_16_9", "Ratio_4_3" >>, << "Ratio_4_3", "Ratio_16_9" >>,
      << "Ratio_16_10", "Ratio_16_10" >>, << "Ratio_5_4", "Ratio_4_3", "Ratio_5_4" >>,
      << "Ratio_15_9", "Ratio_5_4", "Ratio_16_10", "Ratio_16_9", "Ratio_4_3" >> }

\* an EdidR4DisplayRangeVideoTimingsCVTR1 value
CVTR1_sample(ratios, preferred, pixels, flags) ==
    [ kind |-> "CVTSupported", maximum_active_pixels_per_line |-> pixels,
      supported_aspect_ratios |-> ratios, preferred_aspect_ratio |-> preferred,
      flags |-> flags, preferred_vertical_refresh_rate |-> 60 ]

\* the arguments of the constructors of a display range limits value: the
\* frequencies vary with the plain timing supports, the CVT part varies with two
\* pairs of ranges
InitRange ==
    /\ BuilderUnset
    /\ pc = "try_from"
    /\ out = <<>>
    /\ hdmi = NoHdmi
    /\ video_block = <<>>
    /\ \E copy \in DescriptorsCopies, rel \in { "R3", "R4" } :
          /\ copy = "src/descriptors.rs" => rel = "R4"
          /\ \/ \E min_v, max_v \in SampleFrequencies, h \in SampleHorizontalRanges,
                   kind \in { "DefaultGTF", "RangeLimitsOnly" } :
                   /\ rel = "R3" => kind = "DefaultGTF" /\ max_v <= 255 /\ h[2] <= 255
                   /\ input = [ copy |-> copy, release |-> rel, hfreq_khz |-> h,
                                vfreq_hz |-> << min_v, max_v >>, max_pixelclock_mhz |-> 230,
                                timings_support |-> [kind |-> kind] ]
             \/ \E v \in { << 50, 90 >>, << 256, 300 >> },
                   ratios \in SampleRatioLists,
                   preferred \in DOMAIN EdidR4DisplayRangeVideoTimingsAspectRatio,
                   pixels \in { 1920, 8184, 65535 },
                   flags \in { {}, { "reduced_cvt_blanking_supported",
                                     "horizontal_shrink_supported" } },
                   mhz \in { 230, 2551 } :
                   /\ rel = "R4"
                   /\ input = [ copy |-> copy, release |-> rel,
                                hfreq_khz |-> << 30, 110 >>, vfreq_hz |-> v,
                                max_pixelclock_mhz |-> mhz,
                                timings_support |->
                                   CVTR1_sample(ratios, preferred, pixels, flags) ]
    /\ err = NoError

\* the constructors the builder's setters go through, in the order hfreq_khz,
\* vfreq_hz, max_pixelclock_mhz; the first error is the one returned
DisplayRangeLimits_try_from_err(d) ==
    LET range_ok(r) == IF d.release = "R3"
                       THEN EdidDisplayRangeLimitsRangeFreq_try_from(r)
                       ELSE EdidR4DisplayRangeLimitsRangeFreq_try_from(r)
        freq_err(value) == [kind |-> "Range", v |-> value, min |-> 1, max |-> 510]
    IN IF d.copy = "src/descriptors.rs"
       THEN (IF \E value \in { d.hfreq_khz[1], d.hfreq_khz[2], d.vfreq_hz[1], d.vfreq_hz[2] } :
                   ~EdidR4DisplayRangeFreq_try_from(value)
             THEN freq_err(CHOOSE value \in { d.hfreq_khz[1], d.hfreq_khz[2],
                                              d.vfreq_hz[1], d.vfreq_hz[2] } :
                              ~EdidR4DisplayRangeFreq_try_from(value))
             ELSE IF ~EdidDisplayRangePixelClock_try_from(d.max_pixelclock_mhz)
             THEN [kind |-> "Range", v |-> d.max_pixelclock_mhz, min |-> 1, max |-> 2550]
             ELSE [kind |-> "None"])
       ELSE IF ~range_ok(d.hfreq_khz)
       THEN DisplayRangeLimitsRangeFreq_try_from_err(d.release, d.hfreq_khz)
       ELSE IF ~range_ok(d.vfreq_hz)
       THEN DisplayRangeLimitsRangeFreq_try_from_err(d.release, d.vfreq_hz)
       ELSE IF ~EdidDisplayRangePixelClock_try_from(d.max_pixelclock_mhz)
       THEN [kind |-> "Range", v |-> d.max_pixelclock_mhz, min |-> 1, max |-> 2550]
       ELSE [kind |-> "None"]

\* try_from of the ranges (src/redid/src) or of the four frequencies (src/src), and
\* of the pixel clock
RangeTryFrom ==
    /\ pc = "try_from"
    /\ LET e == DisplayRangeLimits_try_from_err(input)
       IN IF e.kind = "None"
          THEN pc' = "ok" /\ err' = NoError
          ELSE pc' = "err" /\ err' = EdidTypeConversionError_fmt(e)
    /\ UNCHANGED << edid_builder, out, hdmi, video_block, input >>

\* EdidR3DisplayRangeLimits::into_bytes / EdidR4DisplayRangeLimits::into_bytes
RangeIntoBytes ==
    /\ pc = "ok"
    /\ \E overflow_checks \in BOOLEAN :
          IF input.release = "R3"
          THEN /\ pc' = "bytes"
               /\ out' = EdidR3DisplayRangeLimits_into_bytes(input)
          ELSE IF EdidR4DisplayRangeLimits_panics(input.copy, input, overflow_checks)
          THEN pc' = "panic" /\ out' = <<>>
          ELSE /\ pc' = "bytes"
               /\ out' = EdidR4DisplayRangeLimits_into_bytes(input.copy, input)
    /\ UNCHANGED << edid_builder, hdmi, video_block, input, err >>

NextRange ==
    \/ RangeTryFrom
    \/ RangeIntoBytes

SpecRange == InitRange /\ [][NextRange]_vars

(***************************************************************************)
(* Chromaticity coordinates: EdidChromaticityCoordinate::try_from, then    *)
(* EdidFilterChromaticity::into_bytes                                      *)
(***************************************************************************)
\* f32 values handed to EdidChromaticityCoordinate::try_from, in thousandths
SampleCoordinates == { -1, 0, 150, 307, 610, 999, 1000, 1001 }

\* the points of an EdidFilterChromaticity: one point varies, the others are those
\* of Chromaticity_color
InitChroma ==
    /\ BuilderUnset
    /\ pc = "try_from"
    /\ out = <<>>
    /\ hdmi = NoHdmi
    /\ video_block = <<>>
    /\ \E x, y \in SampleCoordinates, point \in { "white", "red", "green", "blue" } :
          \/ input = [Chromaticity_color EXCEPT ![point] = << x, y >>]
          \/ point = "white" /\ input = [Chromaticity_mono EXCEPT !.white = << x, y >>]
    /\ err = NoError

\* the coordinates of the value under study
ChromaCoordinates(c) ==
    { c.white[1], c.white[2] }
    \cup (IF c.kind = "Color"
          THEN { c.red[1], c.red[2], c.green[1], c.green[2], c.blue[1], c.blue[2] }
          ELSE {})

\* EdidChromaticityCoordinate::try_from of every coordinate; the error carries the
\* f32, which is not kept here
ChromaTryFrom ==
    /\ pc = "try_from"
    /\ pc' = IF \A v \in ChromaCoordinates(input) : EdidChromaticityCoordinate_try_from(v)
             THEN "ok" ELSE "err"
    /\ UNCHANGED << edid_builder, out, hdmi, video_block, input, err >>

\* EdidFilterChromaticity::into_bytes
ChromaIntoBytes ==
    /\ pc = "ok"
    /\ pc' = "bytes"
    /\ out' = EdidFilterChromaticity_into_bytes(input)
    /\ UNCHANGED << edid_builder, hdmi, video_block, input, err >>

NextChroma ==
    \/ ChromaTryFrom
    \/ ChromaIntoBytes

SpecChroma == InitChroma /\ [][NextChroma]_vars

(***************************************************************************)
(* Release 4 aspect ratios: EdidR4ImageLandscapeAspectRatio::try_from /    *)
(* EdidR4ImagePortraitAspectRatio::try_from, then EdidR4ImageSize::        *)
(* into_bytes                                                              *)
(***************************************************************************)
\* numerators and denominators handed to the constructors
SampleRatioTerms == { 1, 3, 4, 5, 7, 9, 10, 16, 25, 27, 28, 99, 100, 101, 354, 355 }

InitRatio ==
    /\ BuilderUnset
    /\ pc = "try_from"
    /\ out = <<>>
    /\ hdmi = NoHdmi
    /\ video_block = <<>>
    /\ \E kind \in { "LandscapeRatio", "PortraitRatio" }, num, denum \in SampleRatioTerms :
          input = [kind |-> kind, num |-> num, denum |-> denum]
    /\ err = NoError

\* try_from((num, denum)) of the ratio type; the error carries the f32 quotient,
\* which is not kept here
RatioTryFrom ==
    /\ pc = "try_from"
    /\ pc' = IF \/ /\ input.kind = "LandscapeRatio"
                   /\ EdidR4ImageLandscapeAspectRatio_try_from(input.num, input.denum)
                \/ /\ input.kind = "PortraitRatio"
                   /\ EdidR4ImagePortraitAspectRatio_try_from(input.num, input.denum)
             THEN "ok" ELSE "err"
    /\ UNCHANGED << edid_builder, out, hdmi, video_block, input, err >>

\* EdidR4ImageSize::into_bytes
RatioIntoBytes ==
    /\ pc = "ok"
    /\ IF EdidImageSize_panics(input)
       THEN pc' = "panic" /\ out' = <<>>
       ELSE pc' = "bytes" /\ out' = EdidImageSize_into_bytes(input)
    /\ UNCHANGED << edid_builder, hdmi, video_block, input, err >>

NextRatio ==
    \/ RatioTryFrom
    \/ RatioIntoBytes

SpecRatio == InitRatio /\ [][NextRatio]_vars

(***************************************************************************)
(* EdidStandardTimingHorizontalSize::try_from, EdidStandardTimingRefreshRate*)
(* ::try_from, then <Vec<EdidStandardTiming> as IntoBytes>::into_bytes      *)
(***************************************************************************)
\* horizontal sizes and refresh rates handed to the constructors
SampleHorizontalSizes == { 248, 255, 256, 260, 264, 1600, 1920, 2288, 2296 }
SampleRefreshRates == { 59, 60, 61, 75, 123, 124 }

\* a timing already held by the list the candidate is pushed to
StandardTiming_1600_75 == [x |-> 1600, ratio |-> "Ratio_4_3", frequency |-> 75]

InitStd ==
    /\ BuilderUnset
    /\ pc = "try_from"
    /\ out = <<>>
    /\ hdmi = NoHdmi
    /\ video_block = <<>>
    /\ \E x \in SampleHorizontalSizes, ratio \in EdidStandardTimingRatio,
          frequency \in SampleRefreshRates, before \in 0..1 :
          input = [x |-> x, ratio |-> ratio, frequency |-> frequency,
                   list |-> [i \in 1..before |-> StandardTiming_1600_75]]
    /\ err = NoError

\* x.try_into() and frequency.try_into() of EdidStandardTiming's fields
StdTryFrom ==
    /\ pc = "try_from"
    /\ pc' = IF /\ EdidStandardTimingHorizontalSize_try_from(input.x)
                /\ EdidStandardTimingRefreshRate_try_from(input.frequency)
             THEN "ok" ELSE "err"
    /\ UNCHANGED << edid_builder, out, hdmi, video_block, input, err >>

\* the timing is pushed to the list, and the list is encoded
StdIntoBytes ==
    /\ pc = "ok"
    /\ \E sts \in { Append(input.list,
                           [x |-> input.x, ratio |-> input.ratio,
                            frequency |-> input.frequency]) } :
          IF StandardTimings_panics(sts)
          THEN pc' = "panic" /\ out' = <<>>
          ELSE pc' = "bytes" /\ out' = StandardTimings_into_bytes(sts)
    /\ UNCHANGED << edid_builder, hdmi, video_block, input, err >>

NextStd ==
    \/ StdTryFrom
    \/ StdIntoBytes

SpecStd == InitStd /\ [][NextStd]_vars

(***************************************************************************)
(* The facade with long standard timing lists: standard_timings(list) and  *)
(* add_standard_timing(st) put no limit on the Vec                         *)
(***************************************************************************)
\* the longest standard timing list explored
MaxStandardTimings == 9

StandardTiming_1920_60 == [x |-> 1920, ratio |-> "Ratio_16_9", frequency |-> 60]

SampleListedStandardTimings == { StandardTiming_1600_75, StandardTiming_1920_60 }

\* mutator standard_timings(st)
StandardTimingsSet ==
    /\ pc = "builder"
    /\ \E st \in SeqsUpTo(SampleListedStandardTimings, MaxListArg) : standard_timings' = st
    /\ UNCHANGED << fixed_fields, established_timings, descriptors, extensions,
                    pc, out, hdmi, video_block, input, err >>

\* mutator add_standard_timing(st)
StandardTimingsPush ==
    /\ pc = "builder"
    /\ Len(standard_timings) < MaxStandardTimings
    /\ \E st \in SampleListedStandardTimings :
          standard_timings' = Append(standard_timings, st)
    /\ UNCHANGED << fixed_fields, established_timings, descriptors, extensions,
                    pc, out, hdmi, video_block, input, err >>

\* mutator descriptors(d), with the one detailed timing of the example
PreferredTimingSet ==
    /\ pc = "builder"
    /\ descriptors' = << [kind |-> "DetailedTiming", v |-> DetailedTiming_1600_1200] >>
    /\ UNCHANGED << fixed_fields, established_timings, standard_timings, extensions,
                    pc, out, hdmi, video_block, input, err >>

NextStdList ==
    \/ PreferredTimingSet
    \/ StandardTimingsSet
    \/ StandardTimingsPush
    \/ IntoBytes

SpecStdList == Init /\ [][NextStdList]_vars

(***************************************************************************)
(* Properties                                                              *)
(***************************************************************************)
\* into_bytes has been called on the facade
Encoded == pc \in {"bytes", "panic"}

\* the plain (unbounded) sum of a byte sequence
RECURSIVE SumBytes(_)
SumBytes(s) ==
    IF Len(s) = 0 THEN 0
    ELSE IF Len(s) = 1 THEN s[1]
    ELSE SumBytes(SubSeq(s, 1, Len(s) \div 2)) + SumBytes(SubSeq(s, Len(s) \div 2 + 1, Len(s)))

\* block b (0-based) of the output
Block(b) == Slice(out, 128 * b, 128 * b + 127)

\* every field value of the model was accepted by its constructor
ModelAccepted ==
    /\ EdidManufacturer_try_from(manufacturer)
    /\ product_code \in 0..65535
    /\ serial_number.v >= 0 /\ serial_number.v \div 65536 <= 65535
    /\ IF release = "R3" THEN EdidManufactureDate_try_from(date) ELSE EdidR4Date_try_from(date)
    /\ LET size == display_parameters_features.size
       IN CASE size.kind = "Size" ->
                  EdidScreenSizeLength_try_from(size.horizontal_cm)
                  /\ EdidScreenSizeLength_try_from(size.vertical_cm)
            [] size.kind = "LandscapeRatio" ->
                  EdidR4ImageLandscapeAspectRatio_try_from(size.num, size.denum)
            [] size.kind = "PortraitRatio" ->
                  EdidR4ImagePortraitAspectRatio_try_from(size.num, size.denum)
            [] size.kind = "Undefined" -> TRUE
    /\ LET g == display_parameters_features.display_transfer_characteristic
       IN g.kind = "Gamma" => EdidDisplayTransferCharacteristics_try_from(g.centi)
    /\ \A c \in {"white"} \cup (IF filter_chromaticity.kind = "Color"
                                THEN {"red", "green", "blue"} ELSE {}) :
          /\ EdidChromaticityCoordinate_try_from(filter_chromaticity[c][1])
          /\ EdidChromaticityCoordinate_try_from(filter_chromaticity[c][2])
    /\ \A i \in 1..Len(established_timings) : established_timings[i] \in EdidEstablishedTiming
    /\ \A i \in 1..Len(standard_timings) :
          /\ EdidStandardTimingHorizontalSize_try_from(standard_timings[i].x)
          /\ EdidStandardTimingRefreshRate_try_from(standard_timings[i].frequency)
          /\ standard_timings[i].ratio \in EdidStandardTimingRatio
    /\ \A i \in 1..Len(descriptors) :
          CASE descriptors[i].kind = "DetailedTiming" ->
                  EdidDescriptorDetailedTiming_try_from(descriptors[i].v)
            [] descriptors[i].kind = "ProductName" ->
                  EdidDescriptorString_try_from(descriptors[i].v)
            [] OTHER -> FALSE
    /\ \A i \in 1..Len(extensions) : \A j \in 1..Len(extensions[i].timings) :
          EdidDescriptorDetailedTiming_try_from(extensions[i].timings[j])

\* each field and each descriptor encodes on its own: what is left to fail is the
\* assembly of the descriptor area and of the blocks
PartsEncode ==
    /\ ~EdidDate_panics(date)
    /\ \A i \in 1..Len(descriptors) : ~Descriptor_panics(descriptors[i], TRUE)

\* C1: for every model built from accepted field values, with any number of
\* descriptors from 0 upward, into_bytes returns exactly
\* 128 * (1 + number of extensions) bytes.
C1_LengthForEveryModel ==
    (Encoded /\ ModelAccepted /\ PartsEncode) =>
        (pc = "bytes" /\ Len(out) = 128 * (1 + Len(extensions)))

\* C2: in every output each 128-byte block sums to 0 modulo 256, its last byte
\* being (256 - (sum of its first 127 bytes) mod 256) mod 256.
C2_BlockChecksums ==
    pc = "bytes" =>
        /\ Len(out) % 128 = 0
        /\ \A b \in 0..((Len(out) \div 128) - 1) :
              /\ SumBytes(Block(b)) % 256 = 0
              /\ Block(b)[128] = (256 - (SumBytes(SubSeq(Block(b), 1, 127)) % 256)) % 256

\* an output of three blocks whose checksum bytes are not trivially zero
C2_Witness ==
    /\ pc = "bytes"
    /\ Len(out) = 384
    /\ At(out, 127) # 0
    /\ At(out, 255) # 0
    /\ At(out, 383) # 0

\* the 72 bytes the descriptor area is to hold for the list ds: each descriptor
\* in order, then Dummy descriptors up to four slots
ExpectedSlots(ds) ==
    Flatten([i \in 1..4 |->
                IF i <= Len(ds) THEN Descriptor_bytes(ds[i])
                ELSE <<0, 0, 0, 16, 0, 0, 0, 0, 0, 0, 0, 0, 0, 0, 0, 0, 0, 0>>])

\* C3: a model with k descriptors, 0 <= k <= 4, encodes, and bytes 54..=125 are those
\* k descriptors in order followed by exactly 4 - k Dummy descriptors, k = 0 included.
C3_DescriptorSlots ==
    (Encoded /\ ModelAccepted /\ PartsEncode /\ Len(descriptors) <= 4) =>
        (pc = "bytes" /\ Slice(out, 54, 125) = ExpectedSlots(descriptors))

\* C4: encoding is infallible: a model whose field values were all accepted by their
\* constructors never makes into_bytes panic (stated for one to four descriptors: the
\* year, the detailed timings and the other fields are what is left to fail).
C4_EncodingInfallible ==
    (ModelAccepted /\ Len(descriptors) \in 1..4) => pc # "panic"

\* C5: byte 126 is the number of extension blocks, and the i-th extension of the
\* final list occupies bytes 128*i .. 128*i+127, after the checksum of the base block.
C5_ExtensionBlocks ==
    pc = "bytes" =>
        /\ At(out, 126) = Len(extensions)
        /\ Len(out) = 128 * (1 + Len(extensions))
        /\ \A i \in 1..Len(extensions) : Block(i) = EdidExtension_into_bytes(extensions[i])

\* two different extensions, set by the builder calls, and encoded
C5_Witness ==
    /\ pc = "bytes"
    /\ Len(extensions) = 2
    /\ Block(1) # Block(2)

\* C6: the base block has the fixed layout: header, manufacturer, product code and
\* serial number little-endian (zeros when absent), date, 01 03 for EdidRelease3 and
\* 01 04 for EdidRelease4, display parameters, chromaticity, established timings,
\* standard timings, descriptors, extension count, checksum.
C6_BaseBlockLayout ==
    pc = "bytes" =>
        /\ Slice(out, 0, 7) = <<0, 255, 255, 255, 255, 255, 255, 0>>
        /\ Slice(out, 8, 9) = EdidManufacturer_into_bytes(manufacturer)
        /\ Slice(out, 10, 11) = << product_code % 256, product_code \div 256 >>
        /\ Slice(out, 12, 15) =
              (IF serial_number.some
               THEN << serial_number.v % 256, (serial_number.v \div 256) % 256,
                       (serial_number.v \div 65536) % 256, serial_number.v \div 16777216 >>
               ELSE <<0, 0, 0, 0>>)
        /\ Slice(out, 16, 17) = EdidDate_into_bytes(date)
        /\ Slice(out, 18, 19) = (IF release = "R3" THEN <<1, 3>> ELSE <<1, 4>>)
        /\ Slice(out, 20, 24) =
              EdidBasicDisplayParametersFeatures_into_bytes(release, display_parameters_features)
        /\ Slice(out, 25, 34) = EdidFilterChromaticity_into_bytes(filter_chromaticity)
        /\ Slice(out, 35, 37) = EstablishedTimings_into_bytes(established_timings)
        /\ Slice(out, 38, 53) = StandardTimings_into_bytes(standard_timings)
        /\ Slice(out, 54, 125) = Descriptors_bytes(descriptors)
        /\ At(out, 126) = Len(extensions)
        /\ (SumBytes(Slice(out, 0, 126)) + At(out, 127)) % 256 = 0

\* a Release 4 block with a serial number, a standard timing and two descriptors
C6_Witness ==
    /\ pc = "bytes"
    /\ release = "R4"
    /\ serial_number.some
    /\ Len(standard_timings) = 1
    /\ Len(descriptors) = 2

\* C7: every EDID Release 3 output has the 640x480@60Hz established timing (bit 5 of
\* byte 35), whatever established_timings(list) / add_established_timing calls were
\* made, established_timings with an empty list included.
C7_Established640 ==
    (pc = "bytes" /\ release = "R3") => Bit(At(out, 35), 5) = 1

\* C8: in every base block bytes 54..=71 are a detailed timing descriptor: they do
\* not begin with the 00 00 prefix of a display descriptor or of a Dummy.
C8_PreferredTimingFirst ==
    pc = "bytes" => ~(At(out, 54) = 0 /\ At(out, 55) = 0)

\* C9: no short video descriptor with VIC >= 64 carries the native flag, and every
\* encoded descriptor byte is (native << 7) | vic with vic < 64, or vic when vic >= 64.
C9_NoNativeHighVic ==
    /\ \A i \in 1..Len(video_block) :
          (video_block[i].kind = "Low" /\ video_block[i].native) => video_block[i].vic < 64
    /\ pc = "bytes" =>
          \A i \in 1..Len(video_block) :
             At(out, i) = (IF video_block[i].vic < 64
                           THEN (IF video_block[i].native THEN 128 ELSE 0) + video_block[i].vic
                           ELSE video_block[i].vic)

Range(f) == { f[i] : i \in DOMAIN f }

\* C10: the Hdmi facade gives a Release 3 model with the 640x480@60Hz established
\* timing, a Product Name and a Display Range Limits descriptor, in that order, right
\* before the caller's extra descriptors, the CTA-861 extension first and the caller's
\* extra extensions after it in order; byte 126 is 1 + the number of extra extensions.
C10_HdmiFacade ==
    pc # "hdmi" =>
        /\ release = "R3"
        /\ "ET_640_480_60hz" \in Range(established_timings)
        /\ LET n == Len(descriptors)
               k == Len(hdmi.descriptors)
           IN /\ n >= k + 2
              /\ descriptors[n - k - 1].kind = "ProductName"
              /\ descriptors[n - k - 1].v = hdmi.product_name
              /\ descriptors[n - k].kind = "DisplayRangeLimits"
              /\ descriptors[n - k].v = hdmi.limits
              /\ \A i \in 1..k : descriptors[n - k + i] = hdmi.descriptors[i]
        /\ Len(extensions) = 1 + Len(hdmi.extensions)
        /\ extensions[1] = hdmi.cta861_extension
        /\ \A i \in 1..Len(hdmi.extensions) : extensions[i + 1] = hdmi.extensions[i]
        /\ pc = "bytes" =>
              /\ At(out, 126) = 1 + Len(hdmi.extensions)
              /\ Bit(At(out, 35), 5) = 1
              /\ Block(1) = EdidExtension_into_bytes(hdmi.cta861_extension)
              /\ \A i \in 1..Len(hdmi.extensions) :
                    Block(i + 1) = EdidExtension_into_bytes(hdmi.extensions[i])

\* an encoded Hdmi model with one extra descriptor and two extra extensions, the
\* first of them different from the CTA-861 extension of the facade
C10_Witness ==
    /\ pc = "bytes"
    /\ hdmi.present
    /\ Len(hdmi.descriptors) = 1
    /\ Len(hdmi.extensions) = 2
    /\ Block(1) # Block(2)

\* C11: a string descriptor built from an ASCII string s of n <= 13 bytes is 18
\* bytes: 00 00 00 TAG 00 (TAG 0xFC product name, 0xFE data string, 0xFF serial
\* number), the n bytes of s, then, only if n < 13, one 0x0A followed by 0x20 up
\* to the end; with n = 13 the string fills the payload and no terminator is
\* written; a string that is not ASCII or longer than 13 bytes is rejected by
\* try_from.
StringTag ==
    CASE input.kind = "ProductName" -> 252
      [] input.kind = "DataString" -> 254
      [] input.kind = "ProductSerialNumber" -> 255

StringIsAscii == \A i \in 1..Len(input.v) : input.v[i] < 128

C11_StringDescriptor ==
    LET s == input.v
        n == Len(s)
    IN /\ pc \in {"ok", "bytes", "panic"} => StringIsAscii /\ n <= 13
       /\ pc = "err" => ~(StringIsAscii /\ n <= 13)
       /\ pc # "panic"
       /\ pc = "bytes" =>
             /\ Len(out) = 18
             /\ SubSeq(out, 1, 5) = <<0, 0, 0, StringTag, 0>>
             /\ SubSeq(out, 6, 5 + n) = s
             /\ n < 13 => out[5 + n + 1] = 10
             /\ \A i \in (5 + n + 2)..18 : out[i] = 32

\* a 13-byte string encoded without terminator, its last byte the string's
C11_Witness ==
    /\ pc = "bytes"
    /\ Len(input.v) = 13
    /\ out[18] = input.v[13]

\* C12: EdidDescriptorCustom::try_from((tag, payload)) succeeds exactly when
\* tag <= 0x0F and the payload has at most 13 bytes; the descriptor encodes as
\* 00 00 00 tag 00, the payload, then zeros up to 18 bytes; a tag above 0x0F gives
\* the error 'Value out of range: <tag> (Range: 0..=15)', a payload longer than 13
\* bytes the error 'Invalid Value: Custom Descriptor Payload must be at most 13
\* bytes long.'.
C12_CustomAccepted ==
    /\ pc \in {"ok", "bytes"} => input.tag <= 15 /\ Len(input.payload) <= 13
    /\ pc = "err" => ~(input.tag <= 15 /\ Len(input.payload) <= 13)

C12_CustomBytes ==
    pc = "bytes" =>
        /\ Len(out) = 18
        /\ SubSeq(out, 1, 5) = <<0, 0, 0, input.tag, 0>>
        /\ SubSeq(out, 6, 5 + Len(input.payload)) = input.payload
        /\ \A i \in (6 + Len(input.payload))..18 : out[i] = 0

C12_CustomDescriptor ==
    /\ C12_CustomAccepted
    /\ C12_CustomBytes
    /\ pc = "err" /\ input.tag > 15 =>
          err = "Value out of range: " \o ToString(input.tag) \o " (Range: 0..=15)"
    /\ pc = "err" /\ input.tag <= 15 =>
          err = "Invalid Value: Custom Descriptor Payload must be at most 13 bytes long."

\* C13: dates encode as two bytes (week, year - 1990): a manufacture date with a
\* week encodes [week, year - 1990], one without a week [0, year - 1990], a
\* Release 4 model-year date [0xFF, year - 1990]; the constructors accept a week
\* only in 1..=53 for Release 3 and 1..=54 for Release 4 (a Range error
\* otherwise) and a year only when it is >= 1990.
C13_DateAccepted ==
    LET max_week == IF input.release = "R3" THEN 53 ELSE 54
        accepted == /\ input.has_week => input.week \in 1..max_week
                    /\ input.year >= 1990
    IN /\ pc \in {"ok", "bytes", "panic"} => accepted
       /\ pc = "err" => ~accepted /\ err.kind = "Range"

C13_DateBytes ==
    pc = "bytes" =>
        out = << IF input.kind = "Model" THEN 255
                 ELSE IF input.has_week THEN input.week ELSE 0,
                 input.year - 1990 >>

C13_DatesEncode ==
    /\ C13_DateAccepted
    /\ C13_DateBytes
    /\ pc # "panic"

\* C14: for every type implementing IntoBytes, into_bytes returns exactly size()
\* bytes; in particular for Edid, EdidRelease3 and EdidRelease4 whatever the
\* number of extensions.
C14_SizeMatchesBytes ==
    pc = "bytes" => Len(out) = Edid_size(Model)

\* C15: edid_equals(current, expected) returns true only if the blobs have the
\* same length and, for every offset i, current[i] = expected[i], or i is byte 17
\* of a detailed-timing descriptor slot and current[i] XOR expected[i] is exactly
\* 0x01, or i lies in 38..=53 and the eight 2-byte standard-timing slots are equal
\* as multisets, or i = 127 and the checksums agree after the adjustments; a
\* difference at any other offset makes it return false.
C15_OracleRelaxations ==
    LET current == input.current
        expected == input.expected
    IN pc = "true" =>
          /\ Len(current) = Len(expected)
          /\ \A i \in 0..(Len(expected) - 1) :
                \/ At(current, i) = At(expected, i)
                \/ /\ i \in { 71, 89, 107, 125 }
                   /\ BitXor(At(current, i), At(expected, i)) = 1
                \/ /\ i \in 38..53
                   /\ compare_unordered_slots(Slice(current, 38, 53), Slice(expected, 38, 53))
                \/ /\ i = 127
                   /\ WrappingSub8(At(current, i),
                                   checksum_offset(expected, current, expected, 125) % 256)
                      = WrappingSub8(At(expected, i),
                                     checksum_offset(current, current, expected, 125) % 256)

\* C16: for every detailed timing that into_bytes serializes, the true sums
\* satisfy h_border + h_front_porch <= 1023, 2 * h_border + h_front_porch +
\* h_sync_pulse + h_back_porch <= 4095, v_border + v_front_porch <= 63 and
\* 2 * v_border + v_front_porch + v_sync_pulse + v_back_porch <= 4095: a timing
\* violating one of these is never serialized with truncated or wrapped fields.
TrueHso == input.dt.horizontal.border + input.dt.horizontal.front_porch

TrueHblank ==
    2 * input.dt.horizontal.border + input.dt.horizontal.front_porch
    + input.dt.horizontal.sync_pulse + input.dt.horizontal.back_porch

TrueVso == input.dt.vertical.border + input.dt.vertical.front_porch

TrueVblank ==
    2 * input.dt.vertical.border + input.dt.vertical.front_porch
    + input.dt.vertical.sync_pulse + input.dt.vertical.back_porch

SumsInRange ==
    /\ TrueHso <= 1023
    /\ TrueHblank <= 4095
    /\ TrueVso <= 63
    /\ TrueVblank <= 4095

C16_NoWrappedTiming == pc = "bytes" => SumsInRange

\* C17: in the 18-byte detailed timing encoding h_blank = 2 * h_border +
\* h_front_porch + h_sync_pulse + h_back_porch has its low 8 bits in byte 3 and
\* bits 11:8 in the low nibble of byte 4, h_sync_offset = h_border +
\* h_front_porch its low 8 bits in byte 8 and bits 9:8 in bits 7:6 of byte 11,
\* with the vertical analogues in bytes 6/7 and 10/11; bytes 0..=1 are
\* pixel_clock_khz / 10 little-endian, bytes 15 and 16 are h_border and
\* v_border; the encoding is the same in the base block and in a CTA-861
\* extension.
DerivedFieldsLayout ==
    /\ Len(out) = 18
    /\ At(out, 0) = (input.dt.pixel_clock \div 10) % 256
    /\ At(out, 1) = (input.dt.pixel_clock \div 10) \div 256
    /\ At(out, 3) = TrueHblank % 256
    /\ At(out, 4) % 16 = TrueHblank \div 256
    /\ At(out, 6) = TrueVblank % 256
    /\ At(out, 7) % 16 = TrueVblank \div 256
    /\ At(out, 8) = TrueHso % 256
    /\ At(out, 11) \div 64 = TrueHso \div 256
    /\ At(out, 10) \div 16 = TrueVso % 16
    /\ (At(out, 11) \div 4) % 4 = TrueVso \div 16
    /\ At(out, 15) = input.dt.horizontal.border
    /\ At(out, 16) = input.dt.vertical.border

C17_DerivedFields == pc = "bytes" => DerivedFieldsLayout

\* the same, for the timings whose sums are in range
C17_DerivedFieldsInRange == pc = "bytes" /\ SumsInRange => DerivedFieldsLayout

\* C20: for every data block written by a CTA-861 extension (Audio, Video, HDMI
\* vendor-specific, Speaker Allocation, Colorimetry, Video Capability) the top
\* three bits of the first byte are the block's type code (1, 2, 3, 4, 7, 7) and
\* its low five bits the number of bytes that follow in the block, for any number
\* of short audio descriptors, short video descriptors or HDMI VICs the builders
\* accept.
BlockTypeCode ==
    CASE input.kind = "Audio" -> 1
      [] input.kind = "Video" -> 2
      [] input.kind = "HDMI" -> 3
      [] input.kind = "SpeakerAllocation" -> 4
      [] input.kind = "Colorimetry" -> 7
      [] input.kind = "VideoCapability" -> 7

BlockHeaderRight ==
    /\ out[1] \div 32 = BlockTypeCode
    /\ out[1] % 32 = Len(out) - 1

C20_DataBlockHeader == pc = "bytes" => BlockHeaderRight

\* the same, for the blocks of at most 32 bytes
C20_DataBlockHeaderShort == pc = "bytes" /\ DataBlock_size(input) <= 32 => BlockHeaderRight

\* C18: every data block and every detailed timing added to a CTA-861 Revision 3
\* extension appears complete and in order in the 128-byte block, starting at
\* byte 4, followed only by zero padding up to byte 126; an extension whose data
\* blocks and detailed timings total more than 123 bytes is rejected rather than
\* encoded with its content cut off.
CtaContent ==
    Flatten([i \in 1..Len(input.data_blocks) |-> DataBlock_into_bytes(input.data_blocks[i])])
    \o Flatten([i \in 1..Len(input.timings) |->
                   EdidDescriptorDetailedTiming_into_bytes(input.timings[i])])

C18_ContentComplete ==
    pc = "bytes" =>
        /\ Len(out) = 128
        /\ Len(CtaContent) <= 123
        /\ SubSeq(out, 5, 4 + Len(CtaContent)) = CtaContent
        /\ \A i \in (5 + Len(CtaContent))..127 : out[i] = 0

\* C19: a CTA-861 Revision 3 extension block starts with 02 03; its byte 2 is 0
\* when the extension has no data block and no detailed timing, otherwise 4 + the
\* sum of size() over its data blocks, which is the offset within the block at
\* which the bytes of the first detailed timing begin.
DtdOffsetRight ==
    LET blocks == Flatten([i \in 1..Len(input.data_blocks) |->
                              DataBlock_into_bytes(input.data_blocks[i])])
        first == EdidDescriptorDetailedTiming_into_bytes(input.timings[1])
    IN /\ At(out, 0) = 2
       /\ At(out, 1) = 3
       /\ At(out, 2) = IF input.data_blocks = <<>> /\ input.timings = <<>> THEN 0
                       ELSE 4 + Len(blocks)
       /\ input.timings # <<>> =>
             /\ At(out, 2) + 17 <= 126
             /\ Slice(out, At(out, 2), At(out, 2) + 17) = first

C19_DtdOffset == pc = "bytes" => DtdOffsetRight

\* the same, for the extensions whose content fits the block
C19_DtdOffsetFitting == pc = "bytes" /\ Len(CtaContent) <= 123 => DtdOffsetRight

\* the flags byte the claim describes for the extension under study
FlagsByteRight ==
    /\ Bit(At(out, 3), 7) = (IF input.underscan_it_formats_by_default THEN 1 ELSE 0)
    /\ Bit(At(out, 3), 6) = (IF input.audio_supported THEN 1 ELSE 0)
    /\ Bit(At(out, 3), 5) = (IF input.ycbcr_444_supported THEN 1 ELSE 0)
    /\ Bit(At(out, 3), 4) = (IF input.ycbcr_422_supported THEN 1 ELSE 0)
    /\ BitAnd(At(out, 3), 15) = input.native_formats

\* C21: byte 3 of a CTA-861 extension block has bit 7 =
\* underscan_it_formats_by_default, bit 6 = audio_supported, bit 5 =
\* ycbcr_444_supported, bit 4 = ycbcr_422_supported and bits 3..0 = the native
\* detailed-timing count, for every native_formats value the builder accepts
C21_FlagsByte == pc = "bytes" => FlagsByteRight

\* C21 holds for the native_formats values that fit four bits
C21_FlagsByteNibble == pc = "bytes" /\ input.native_formats <= 15 => FlagsByteRight

\* the number x with x * 5 >= rate > (x - 1) * 5
CeilFifth(rate) == CHOOSE x \in 0..rate : x * 5 >= rate /\ (x - 1) * 5 < rate

\* the HDMI block of the claim, but for its tag byte
HdmiBlockBody ==
    LET h == input.v
        a == h.source_physical_address
        any == h.flags # {} \/ h.max_tmds_rate_mhz.some \/ h.video.some
        n == Len(h.video.vics)
    IN /\ Slice(out, 1, 5) = << 3, 12, 0, a[1] * 16 + a[2], a[3] * 16 + a[4] >>
       /\ ~any <=> Len(out) = 6
       /\ any <=> Len(out) >= 7
       /\ (h.max_tmds_rate_mhz.some \/ h.video.some) <=> Len(out) >= 8
       /\ Len(out) >= 8 =>
             At(out, 7) = (IF h.max_tmds_rate_mhz.some
                           THEN CeilFifth(h.max_tmds_rate_mhz.v) ELSE 0)
       /\ h.video.some <=> Len(out) >= 9
       /\ h.video.some =>
             /\ Len(out) = 11 + n
             /\ Slice(out, 9, 10 + n) = << 0, (n * 32) % 256 >> \o h.video.vics

\* the tag byte: type code 3 and the number of bytes that follow
HdmiBlockTag == Shr(At(out, 0), 5) = 3 /\ BitAnd(At(out, 0), 31) = Len(out) - 1

\* C22: an HDMI vendor-specific data block is tag byte, OUI 03 0C 00, then
\* (A<<4)|B and (C<<4)|D for CEC address A.B.C.D; it is 6 bytes when no flag, no
\* TMDS rate and no video is set, has a 7th byte iff any of them is present, an
\* 8th byte holding ceil(rate_mhz / 5) iff a TMDS rate or video is present, a 9th
\* byte and the VIC sub-block iff video is present, and the tag's length field
\* always equals the block length minus 1
C22_HdmiBlock == pc = "bytes" => HdmiBlockBody /\ HdmiBlockTag

\* the body of the block is as C22 says for every block that is encoded
C22_HdmiBlockBody == pc = "bytes" => HdmiBlockBody

\* C22 holds whole for the blocks of at most 32 bytes
C22_HdmiBlockShort == pc = "bytes" /\ Len(out) <= 32 => HdmiBlockBody /\ HdmiBlockTag

\* frequency f is stored in the 14 bytes from the flags byte on as the claim says:
\* offset flag in bit `bit` of byte 0, set exactly when f > 255, and byte `at`
\* holding f, or f - 255 when the flag is set
FrequencyStoredRight(f, bit, at) ==
    /\ Bit(At(out, 0), bit) = (IF f > 255 THEN 1 ELSE 0)
    /\ f = At(out, at) + 255 * Bit(At(out, 0), bit)

AllFrequenciesStoredRight ==
    /\ FrequencyStoredRight(input.vfreq_hz[1], 0, 1)
    /\ FrequencyStoredRight(input.vfreq_hz[2], 1, 2)
    /\ FrequencyStoredRight(input.hfreq_khz[1], 2, 3)
    /\ FrequencyStoredRight(input.hfreq_khz[2], 3, 4)

\* C23: in a Release 4 Display Range Limits descriptor each minimum / maximum
\* horizontal or vertical frequency f in 1..=510 is stored as a byte b and an
\* offset flag with f = b when the flag is clear and f = b + 255 when it is set,
\* the flag being set exactly when f > 255 (256 stores 1, 510 stores 255)
C23_FrequencyOffset ==
    pc = "bytes" /\ input.release = "R4" => AllFrequenciesStoredRight

\* C23 holds when no frequency of the descriptor exceeds 255
C23_FrequencyNoOffset ==
    pc = "bytes" /\ input.release = "R4"
    /\ input.vfreq_hz[2] <= 255 /\ input.hfreq_khz[2] <= 255
    /\ input.vfreq_hz[1] <= 255 /\ input.hfreq_khz[1] <= 255
    => AllFrequenciesStoredRight

\* C23 holds in src/src/descriptors.rs for a descriptor whose minima do not exceed
\* its maxima
C23_FrequencyOffsetSrc ==
    pc = "bytes" /\ input.release = "R4" /\ input.copy = "src/descriptors.rs"
    /\ input.vfreq_hz[1] <= input.vfreq_hz[2] /\ input.hfreq_khz[1] <= input.hfreq_khz[2]
    => AllFrequenciesStoredRight

\* the supported-aspect-ratio byte (byte 10 of the 14) and the byte after it are as
\* C24 says
AspectRatioBytesRight ==
    LET cvt == input.timings_support
        on(ratio) == IF \E k \in 1..Len(cvt.supported_aspect_ratios) :
                           cvt.supported_aspect_ratios[k] = ratio
                     THEN 1 ELSE 0
    IN /\ Bit(At(out, 10), 7) = on("Ratio_4_3")
       /\ Bit(At(out, 10), 6) = on("Ratio_16_9")
       /\ Bit(At(out, 10), 5) = on("Ratio_16_10")
       /\ Bit(At(out, 10), 4) = on("Ratio_5_4")
       /\ Bit(At(out, 10), 3) = on("Ratio_15_9")
       /\ BitAnd(At(out, 10), 7) = 0
       /\ Shr(At(out, 11), 5)
          = EdidR4DisplayRangeVideoTimingsAspectRatio[cvt.preferred_aspect_ratio]
       /\ Shr(At(out, 11), 5) \in 0..4

\* C24: in the CVT variant of the Release 4 Display Range Limits descriptor the
\* supported-aspect-ratio byte has bit 7 set iff 4:3 is supported, bit 6 iff 16:9,
\* bit 5 iff 16:10, bit 4 iff 5:4, bit 3 iff 15:9, bits 2..0 clear, whatever the
\* order or repetition of the ratios added, and the preferred ratio is written as
\* a value 0..=4 in bits 7..5 of the following byte
C24_AspectRatios ==
    pc = "bytes" /\ input.timings_support.kind = "CVTSupported" => AspectRatioBytesRight

\* C24 holds in src/redid/src/descriptors.rs
C24_AspectRatiosRedid ==
    pc = "bytes" /\ input.timings_support.kind = "CVTSupported"
    /\ input.copy = "redid/src/descriptors.rs"
    => AspectRatioBytesRight

\* the message of the Value error for an empty range
EmptyRangeMessage(r) ==
    "Invalid Value: Empty Range: (" \o ToString(r[1]) \o ".." \o ToString(r[2]) \o ")"

\* C30: a display range limits frequency range min..max is rejected with a Value
\* error 'Empty Range' whenever min >= max (so min = max cannot be represented),
\* every accepted range has min < max, and in the Release 4 flags byte a
\* minimum-offset bit (bit 0 or bit 2) is never set without the corresponding
\* maximum-offset bit (bit 1 or bit 3)
C30_EmptyRangeRejected ==
    /\ pc \in { "ok", "bytes", "panic" } /\ input.copy = "redid/src/descriptors.rs"
       => input.hfreq_khz[1] < input.hfreq_khz[2] /\ input.vfreq_hz[1] < input.vfreq_hz[2]
    /\ pc = "err" /\ input.copy = "redid/src/descriptors.rs"
       /\ input.hfreq_khz[1] >= input.hfreq_khz[2]
       => err = EmptyRangeMessage(input.hfreq_khz)
    /\ pc = "err" /\ input.copy = "redid/src/descriptors.rs"
       /\ input.hfreq_khz[1] < input.hfreq_khz[2] /\ input.vfreq_hz[1] >= input.vfreq_hz[2]
       => err = EmptyRangeMessage(input.vfreq_hz)
    /\ pc = "bytes" /\ input.release = "R4"
       => /\ Bit(At(out, 0), 0) = 1 => Bit(At(out, 0), 1) = 1
          /\ Bit(At(out, 0), 2) = 1 => Bit(At(out, 0), 3) = 1

\* a range with min = max, both valid frequencies, was rejected as empty
C30_Witness ==
    /\ pc = "err"
    /\ input.copy = "redid/src/descriptors.rs"
    /\ input.vfreq_hz = << 256, 256 >>
    /\ input.hfreq_khz[1] < input.hfreq_khz[2]
    /\ err = "Invalid Value: Empty Range: (256..256)"

\* the 10-bit value reassembled from high byte `hi` and the 2-bit field at bit
\* `shift` of byte `lo` equals round(v * 1024), v given in thousandths
CoordinateRight(milli, hi, lo, shift) ==
    At(out, hi) * 4 + BitAnd(Shr(At(out, lo), shift), 3) = Round(milli * 1024, 1000)

\* C25: for every chromaticity coordinate v accepted by the constructor (0.0 <= v
\* <= 1.0, including v = 1.0), the 10-bit value reassembled from the encoded
\* bytes, (high byte << 2) | 2-bit low field, equals round(v * 1024); the low
\* fields are packed red_x, red_y, green_x, green_y in byte 0 and blue_x, blue_y,
\* white_x, white_y in byte 1, and bytes 2..=9 are the high bytes in that order
C25_ChromaticityRoundTrip ==
    pc = "bytes" =>
       /\ CoordinateRight(input.white[1], 8, 1, 2)
       /\ CoordinateRight(input.white[2], 9, 1, 0)
       /\ input.kind = "Color" =>
             /\ CoordinateRight(input.red[1], 2, 0, 6)
             /\ CoordinateRight(input.red[2], 3, 0, 4)
             /\ CoordinateRight(input.green[1], 4, 0, 2)
             /\ CoordinateRight(input.green[2], 5, 0, 0)
             /\ CoordinateRight(input.blue[1], 6, 1, 6)
             /\ CoordinateRight(input.blue[2], 7, 1, 4)

\* C25 holds for the coordinates below 1.0 (those whose round(v * 1024) is below
\* 1024)
C25_ChromaticityBelowOne ==
    pc = "bytes" /\ (\A v \in ChromaCoordinates(input) : v < 1000)
    => /\ CoordinateRight(input.white[1], 8, 1, 2)
       /\ CoordinateRight(input.white[2], 9, 1, 0)
       /\ input.kind = "Color" =>
             /\ CoordinateRight(input.red[1], 2, 0, 6)
             /\ CoordinateRight(input.red[2], 3, 0, 4)
             /\ CoordinateRight(input.green[1], 4, 0, 2)
             /\ CoordinateRight(input.green[2], 5, 0, 0)
             /\ CoordinateRight(input.blue[1], 6, 1, 6)
             /\ CoordinateRight(input.blue[2], 7, 1, 4)

\* x is the fraction n / d rounded to the nearest integer
IsRounded(x, n, d) == 2 * n - d <= 2 * x * d /\ 2 * x * d <= 2 * n + d

\* the two bytes of an encoded ratio are as C26 says
RatioBytesRight ==
    /\ Len(out) = 2
    /\ input.kind = "LandscapeRatio" =>
          /\ At(out, 0) \in 1..255 /\ At(out, 1) = 0
          /\ IsRounded(At(out, 0) + 99, 100 * input.num, input.denum)
    /\ input.kind = "PortraitRatio" =>
          /\ At(out, 1) \in 1..255 /\ At(out, 0) = 0
          /\ IsRounded(At(out, 1) + 99, 100 * input.denum, input.num)

\* C26: every Release 4 aspect ratio accepted by its constructor encodes without
\* failure into one byte in 1..=255: a landscape ratio n/d with 1.00 <= n/d <= 3.54
\* encodes [round(100*n/d) - 99, 0x00] and a portrait ratio n/d with 0.28 <= n/d
\* <= 0.99 (the lower bound 0.28 included) encodes [0x00, round(100*d/n) - 99]
C26_RatiosEncode ==
    /\ pc # "panic"
    /\ pc = "bytes" => RatioBytesRight

\* C26 holds for the landscape ratios, and for the portrait ratios that are encoded
C26_RatiosEncoded ==
    /\ input.kind = "LandscapeRatio" => pc # "panic"
    /\ pc = "bytes" => RatioBytesRight

\* the slot C27 describes for a timing: x / 8 - 31, then the ratio code in bits 7..6
\* over refresh - 60
StandardSlotRight(x, ratio, frequency) ==
    << x \div 8 - 31,
       64 * (CASE ratio = "Ratio_16_10" -> 0
               [] ratio = "Ratio_4_3" -> 1
               [] ratio = "Ratio_5_4" -> 2
               [] ratio = "Ratio_16_9" -> 3) + (frequency - 60) >>

\* C27: the standard timings field is always 16 bytes: slot i holds the i-th timing as
\* byte0 = x / 8 - 31 and byte1 = (ratio_code << 6) | (refresh - 60), codes 0 for 16:10,
\* 1 for 4:3, 2 for 5:4, 3 for 16:9, every remaining slot is 01 01; the constructors
\* accept x only in 256..=2288 with x % 8 = 0 and refresh only in 60..=123.
C27_StandardTimingsField ==
    /\ pc \in { "ok", "bytes", "panic" } =>
          /\ input.x \in 256..2288 /\ input.x % 8 = 0
          /\ input.frequency \in 60..123
    /\ pc = "err" =>
          \/ input.x \notin 256..2288 \/ input.x % 8 # 0
          \/ input.frequency \notin 60..123
    /\ pc # "panic"
    /\ pc = "bytes" =>
          /\ Len(out) = 16
          /\ \A i \in 0..7 :
                Slice(out, 2 * i, 2 * i + 1) =
                    IF i < Len(input.list)
                    THEN StandardSlotRight(input.list[i + 1].x, input.list[i + 1].ratio,
                                           input.list[i + 1].frequency)
                    ELSE IF i = Len(input.list)
                    THEN StandardSlotRight(input.x, input.ratio, input.frequency)
                    ELSE <<1, 1>>

\* 1920 at 60 Hz, 16:9, pushed after another timing, has been encoded as D1 C0
C27_Witness ==
    /\ pc = "bytes"
    /\ input.x = 1920 /\ input.ratio = "Ratio_16_9" /\ input.frequency = 60
    /\ Len(input.list) = 1
    /\ Slice(out, 2, 3) = <<209, 192>>
    /\ Slice(out, 4, 5) = <<1, 1>>

\* C28: no standard timing accepted by the constructors encodes to the unused-slot
\* pattern 01 01.
C28_NeverUnusedPattern ==
    pc = "bytes" =>
        Slice(out, 2 * Len(input.list), 2 * Len(input.list) + 1) # <<1, 1>>

\* every accepted timing but the 256-wide 16:10 one at 61 Hz is told from an empty slot
C28_UnusedPatternOnlyFor256 ==
    (pc = "bytes" /\ Slice(out, 2 * Len(input.list), 2 * Len(input.list) + 1) = <<1, 1>>) =>
        (input.x \in 256..263 /\ input.ratio = "Ratio_16_10" /\ input.frequency = 61)

\* the model with the standard timings after the eighth taken away
ModelOfFirstEight ==
    [Model EXCEPT !.standard_timings = SubSeq(standard_timings, 1, 8)]

====
